---- MODULE Spec2Model ----
(***************************************************************************)
(* Model of the trading agent of trader/src: the RiskManager               *)
(* (risk_manager.py), the TradingEngine's execute paths                    *)
(* (trading_logic.py) and the WhaleMonitor polling loop                    *)
(* (whale_monitor.py).                                                     *)
(*                                                                         *)
(* Units.  ETH amounts are integers in micro-ETH, USDC amounts integers in *)
(* cents; Python floats are modelled as exact decimals.  Time is in        *)
(* minutes since the start of day 0 (UTC).                                 *)
(***************************************************************************)
EXTENDS Integers, Sequences, FiniteSets, TLC

VARIABLES
    now,                    \* datetime.utcnow(), in minutes
    max_trade_amount_eth,   \* RiskManager limits
    max_daily_volume_eth,
    max_hourly_trades,
    max_daily_trades,
    allowed_contracts,      \* RiskManager.allowed_contracts (checksum addresses)
    daily_volume,           \* defaultdict(float): day  -> volume
    hourly_trade_count,     \* defaultdict(int):   hour -> count
    daily_trade_count,      \* defaultdict(int):   day  -> count
    trade_history,          \* list of trade records
    last,                   \* the last completed RiskManager call and what it returned
    polymarket_client,      \* TradingEngine.polymarket_client is not None
    pc,                     \* per thread: where it stands inside an execute call
    call,                   \* per thread: the execute call it runs or ran last
    n_calls,                \* execute calls started so far
    n_submitted,            \* transactions and bets submitted to the chain so far
    monitored_whales,       \* WhaleMonitor.monitored_whales: the configs, in dict order
    recent_trades,          \* WhaleMonitor.recent_trades: whale -> set of trade hashes
    running,                \* WhaleMonitor.running
    loops,                  \* the monitor_whales() tasks created so far
    feed,                   \* what the market feed lists: the whales' trades
    copied,                 \* log: how often execute_copy_trade was called for a trade
    rediscarded             \* log: trades a poll returned that were in the seen set

limitVars   == <<max_trade_amount_eth, max_daily_volume_eth, max_hourly_trades, max_daily_trades>>
counterVars == <<daily_volume, hourly_trade_count, daily_trade_count>>
riskVars    == <<limitVars, allowed_contracts, counterVars, trade_history>>
engineVars  == <<polymarket_client, pc, call, n_calls, n_submitted>>
monitorVars == <<monitored_whales, recent_trades, running, loops, feed, copied, rediscarded>>
vars        == <<now, riskVars, last, engineVars, monitorVars>>

-----------------------------------------------------------------------------
(* Bounds of the model *)

\* how many minutes the clock may run past its starting instant
MaxElapsed == 3
\* how many record_trade calls a behaviour of SpecRisk makes
MaxRecords == 2
\* how many execute calls a behaviour of SpecEngine starts
MaxCalls == 2
\* how many monitor_whales() tasks a behaviour of SpecMonitor creates
MaxLoops == 2

-----------------------------------------------------------------------------
(* Clock and buckets *)

MinutesPerHour == 60
HoursPerDay    == 24
MinutesPerDay  == MinutesPerHour * HoursPerDay

\* The process may be started at any instant; these two are two minutes before
\* an hour boundary inside day 0 and two minutes before the boundary to day 1.
StartTimes == {MinutesPerHour - 2, MinutesPerDay - 2}

\* datetime.utcnow().date()
DateOf(t) == t \div MinutesPerDay
\* datetime.utcnow().replace(minute=0, second=0, microsecond=0)
HourOf(t) == t \div MinutesPerHour

Times == 0 .. (MinutesPerDay + MaxElapsed)
Days  == {DateOf(t) : t \in Times}
Hours == {HourOf(t) : t \in Times}

-----------------------------------------------------------------------------
(* Addresses *)

\* to_checksum_address raised ValueError
BadAddress == "<ValueError>"

\* spellings of well-formed 20-byte addresses: lower case and EIP-55 checksum case
LowerSpellings    == {"0xaaaa", "0x4d97"}
ChecksumSpellings == {"0xAaAa", "0xBbBb", "0x4D97"}
\* strings that are no address at all
MalformedAddresses == {"0x12"}
\* destinations a caller passes: an allow-listed contract in lower case, one that
\* is not allow-listed, the conditional-tokens contract, a malformed string
AddressInputs == {"0xaaaa", "0xBbBb", "0x4D97"} \cup MalformedAddresses

\* eth_utils.to_checksum_address: normalises the case, raises on a malformed string
to_checksum_address(a) ==
    CASE a \in {"0xaaaa", "0xAaAa"} -> "0xAaAa"
      [] a \in {"0xbbbb", "0xBbBb"} -> "0xBbBb"
      [] a \in {"0x4d97", "0x4D97"} -> "0x4D97"
      [] OTHER -> BadAddress

\* PolymarketClient.CONDITIONAL_TOKENS_CONTRACT
CONDITIONAL_TOKENS_CONTRACT == "0x4D97"

\* the addresses whales are registered under
WhaleAddrs == {"0xW1", "0xW2"}

-----------------------------------------------------------------------------
(* Amounts and payloads *)

\* one ETH in micro-ETH
Eth(n) == n * 1000000

\* A raw value argument: a number, or something float() rejects
Num(v)     == [isnum |-> TRUE, val |-> v]
NonNumeric == [isnum |-> FALSE, val |-> 0]

LargeDataLimit == 10000

\* payload strings, with their len(): empty, short valid hex, valid hex longer
\* than the large-data threshold, not 0x-prefixed, odd length, 0x-prefixed and
\* of even length with characters that are no hex digits
DataInputs == {"0x", "0xdead", "0x<10002 hex chars>", "dead", "0xabc", "0xzz"}
\* the payloads assess_trade tells apart
AssessData == {"0x", "0x<10002 hex chars>"}
DataLen(d) ==
    CASE d = "0x" -> 2
      [] d = "0xdead" -> 6
      [] d = "0x<10002 hex chars>" -> 10004
      [] d = "dead" -> 4
      [] d = "0xabc" -> 5
      [] d = "0xzz" -> 4
      [] OTHER -> 0

-----------------------------------------------------------------------------
(* RiskManager.assess_trade *)

Rejected(reason, score, warnings) ==
    [approved |-> FALSE, reason |-> reason, risk_score |-> score,
     warnings |-> warnings, timestamp |-> now]

Approved(score, warnings) ==
    [approved |-> TRUE, reason |-> "", risk_score |-> score,
     warnings |-> warnings, timestamp |-> now]

AssessTail_nocheck7(value_eth, data, current_daily_volume, current_daily_trades) ==
    Approved(0, <<>>)

AssessTail_zero_ok(value_eth, data, current_daily_volume, current_daily_trades) ==
    IF value_eth < 0 THEN Rejected("Trade amount must be positive", 100, <<>>)
    ELSE Approved(0, <<>>)

\* the part of assess_trade after the hard checks 1-5 (checks 6, 7 and the warnings)
AssessTail(value_eth, data, current_daily_volume, current_daily_trades) ==
    LET w6 == IF data # "" /\ data # "0x" /\ DataLen(data) > LargeDataLimit
              THEN <<"Large data payload detected">> ELSE <<>>
        s6 == IF w6 # <<>> THEN 10 ELSE 0
    IN  IF value_eth <= 0
        THEN Rejected("Trade amount must be positive", s6 + 100, w6)
        ELSE
        LET w7 == IF 10 * value_eth > 8 * max_trade_amount_eth
                  THEN <<"High-value trade detected">> ELSE <<>>
            w8 == IF 10 * (current_daily_volume + value_eth) > 8 * max_daily_volume_eth
                  THEN <<"Approaching daily volume limit">> ELSE <<>>
            w9 == IF 10 * (current_daily_trades + 1) > 8 * max_daily_trades
                  THEN <<"Approaching daily trade limit">> ELSE <<>>
        IN  Approved(s6 + 5 * (Len(w7) + Len(w8) + Len(w9)), w6 \o w7 \o w8 \o w9)

\* the bucket whose daily counters assess_trade consults
AssessDay_stuck == DateOf(0)
AssessDay == DateOf(now)

\* Check 1: trade amount limit
ExceedsTradeLimit_ge(value_eth) == value_eth >= max_trade_amount_eth
ExceedsTradeLimit_volume(value_eth) == value_eth > max_daily_volume_eth
ExceedsTradeLimit(value_eth) == value_eth > max_trade_amount_eth

\* Check 2: contract whitelist
NotAllowListed_off(to_address) == FALSE
NotAllowListed(to_address) == to_address \notin allowed_contracts

\* Check 3: daily volume limit
ExceedsDailyVolume_ge(current_daily_volume, value_eth) ==
    current_daily_volume + value_eth >= max_daily_volume_eth
ExceedsDailyVolume_single(current_daily_volume, value_eth) ==
    value_eth > max_daily_volume_eth
ExceedsDailyVolume(current_daily_volume, value_eth) ==
    current_daily_volume + value_eth > max_daily_volume_eth

\* Check 4: hourly trade count limit
HourlyLimitReached_gt(current_hourly_trades) == current_hourly_trades > max_hourly_trades
HourlyLimitReached(current_hourly_trades) == current_hourly_trades >= max_hourly_trades

\* Check 5: daily trade count limit
DailyLimitReached(current_daily_trades) == current_daily_trades >= max_daily_trades

\* what the except clause of assess_trade returns
AssessmentError_raised ==
    [approved |-> FALSE, reason |-> "<raised>", risk_score |-> 0, warnings |-> <<>>,
     timestamp |-> now]
AssessmentError == Rejected("Assessment error: {e}", 100, <<>>)

\* assess_trade with every failing check adding its penalty
assess_trade_accumulating(to_raw, value_raw, data) ==
    LET to_address == to_checksum_address(to_raw) IN
    IF to_address = BadAddress \/ ~value_raw.isnum
    THEN AssessmentError
    ELSE
    LET v == value_raw.val
        score == (IF ExceedsTradeLimit(v) THEN 50 ELSE 0)
                 + (IF NotAllowListed(to_address) THEN 100 ELSE 0)
                 + (IF ExceedsDailyVolume(daily_volume[AssessDay], v) THEN 40 ELSE 0)
                 + (IF HourlyLimitReached(hourly_trade_count[HourOf(now)]) THEN 30 ELSE 0)
                 + (IF DailyLimitReached(daily_trade_count[AssessDay]) THEN 25 ELSE 0)
        tail == AssessTail(v, data, daily_volume[AssessDay], daily_trade_count[AssessDay])
    IN  IF score = 0 THEN tail
        ELSE Rejected("<several>", score + (IF tail.approved THEN 0 ELSE 100), <<>>)

assess_trade(to_raw, value_raw, data) ==
    LET to_address == to_checksum_address(to_raw) IN
    IF to_address = BadAddress \/ ~value_raw.isnum
    THEN AssessmentError
    ELSE
    LET value_eth             == value_raw.val
        today                 == AssessDay
        current_daily_volume  == daily_volume[today]
        current_hour          == HourOf(now)
        current_hourly_trades == hourly_trade_count[current_hour]
        current_daily_trades  == daily_trade_count[today]
    IN  IF ExceedsTradeLimit(value_eth)
        THEN Rejected("Trade amount {value_eth} ETH exceeds limit {max_trade_amount_eth} ETH", 50, <<>>)
        ELSE IF NotAllowListed(to_address)
        THEN Rejected("Contract {to_address} not in allowed contracts list", 100, <<>>)
        ELSE IF ExceedsDailyVolume(current_daily_volume, value_eth)
        THEN Rejected("Daily volume would exceed limit: {current_daily_volume + value_eth} > {max_daily_volume_eth} ETH", 40, <<>>)
        ELSE IF HourlyLimitReached(current_hourly_trades)
        THEN Rejected("Hourly trade count limit reached: {current_hourly_trades} >= {max_hourly_trades}", 30, <<>>)
        ELSE IF DailyLimitReached(current_daily_trades)
        THEN Rejected("Daily trade count limit reached: {current_daily_trades} >= {max_daily_trades}", 25, <<>>)
        ELSE AssessTail(value_eth, data, current_daily_volume, current_daily_trades)

-----------------------------------------------------------------------------
(* RiskManager.record_trade *)

HistoryCap == 1000

\* the bucket whose daily counters record_trade updates
RecordDay_first == DateOf(0)
RecordDay == DateOf(now)

\* self.trade_history = self.trade_history[:1000]
TrimHistory_head(h) ==
    IF Len(h) > HistoryCap THEN SubSeq(h, 1, HistoryCap) ELSE h

\* self.trade_history = self.trade_history[-1000:]
TrimHistory(h) ==
    IF Len(h) > HistoryCap THEN SubSeq(h, Len(h) - HistoryCap + 1, Len(h)) ELSE h

\* The effect of record_trade on the RiskManager.  An exception inside (malformed
\* address, non-numeric value) is caught and logged: nothing has changed then.
record_trade(to_raw, value_raw, tx_hash) ==
    LET to_address == to_checksum_address(to_raw) IN
    IF to_address = BadAddress \/ ~value_raw.isnum
    THEN UNCHANGED <<counterVars, trade_history>>
    ELSE
    LET value_eth    == value_raw.val
        today        == RecordDay
        current_hour == HourOf(now)
    IN  /\ daily_volume' = [daily_volume EXCEPT ![today] = @ + value_eth]
        /\ hourly_trade_count' = [hourly_trade_count EXCEPT ![current_hour] = @ + 1]
        /\ daily_trade_count' = [daily_trade_count EXCEPT ![today] = @ + 1]
        /\ trade_history' = TrimHistory(Append(trade_history,
               [timestamp |-> now, to_address |-> to_address, value_eth |-> value_eth,
                tx_hash |-> tx_hash,
                daily_volume |-> daily_volume[today] + value_eth,
                daily_trade_count |-> daily_trade_count[today] + 1]))

-----------------------------------------------------------------------------
(* The RiskManager on its own: SpecRisk *)

\* limits as the environment (MAX_TRADE_AMOUNT_ETH, ...) may configure them;
\* nothing validates one limit against another
LimitConfigs ==
    { [trade |-> Eth(1), volume |-> Eth(2), hourly |-> 2, daily |-> 3],
      [trade |-> Eth(1), volume |-> 500000, hourly |-> 1, daily |-> 1],
      [trade |-> 400000, volume |-> Eth(1), hourly |-> 3, daily |-> 2],
      [trade |-> Eth(1), volume |-> Eth(2), hourly |-> 3, daily |-> 1] }

AllowLists == { {"0xAaAa", CONDITIONAL_TOKENS_CONTRACT} }

ValueInputs  == {Num(0 - 400000), Num(0), Num(400000), Num(Eth(1)), Num(1500000), NonNumeric}
RecordValues == {Num(400000), Num(Eth(1))}
\* destinations record_trade is handed: the contract of the bets in lower case,
\* and a string that is no address
RecordAddresses == {"0x4d97"} \cup MalformedAddresses

NoReturn == [approved |-> FALSE, reason |-> "<none>", risk_score |-> 0,
             warnings |-> <<>>, timestamp |-> 0]
NoCall   == [op |-> "init", to |-> "", value |-> Num(0), data |-> "", ret |-> NoReturn]

\* the threads that run execute calls: HTTP request threads and the thread of
\* the monitor's event loop
Procs == {"p1", "p2"}

NoExecute ==
    [op |-> "none", to |-> "", value |-> 0, data |-> "", status |-> "none",
     error |-> "", reason |-> "", tx_hash |-> "", gas |-> 0, submitted |-> 0, records |-> 0,
     assessed |-> 0, decision |-> NoReturn,
     balance_wei |-> 0 - 1, gas_price |-> 0, gas_estimate |-> 0 - 1,
     usdc_balance |-> 0 - 1]

\* no execute call has been made
EngineIdle ==
    /\ pc = [p \in Procs |-> "idle"]
    /\ call = [p \in Procs |-> NoExecute]
    /\ n_calls = 0
    /\ n_submitted = 0

\* RiskManager.__init__, at some instant
RiskManagerInit ==
    /\ now \in StartTimes
    /\ \E c \in LimitConfigs :
          /\ max_trade_amount_eth = c.trade
          /\ max_daily_volume_eth = c.volume
          /\ max_hourly_trades = c.hourly
          /\ max_daily_trades = c.daily
    /\ allowed_contracts \in AllowLists
    /\ daily_volume = [d \in Days |-> 0]
    /\ hourly_trade_count = [h \in Hours |-> 0]
    /\ daily_trade_count = [d \in Days |-> 0]
    /\ trade_history = <<>>
    /\ last = NoCall

\* WhaleMonitor.__init__
MonitorIdle ==
    /\ monitored_whales = <<>>
    /\ recent_trades = [w \in WhaleAddrs |-> {}]
    /\ running = FALSE
    /\ loops = <<>>
    /\ copied = <<>>   \* the function with the empty domain
    /\ rediscarded = {}

RiskInit ==
    /\ RiskManagerInit
    /\ EngineIdle
    /\ MonitorIdle
    /\ feed = {}
    /\ polymarket_client = TRUE

AssessTrade_counting(to_raw, value_raw, data) ==
    /\ last' = [op |-> "assess_trade", to |-> to_raw, value |-> value_raw,
                data |-> data, ret |-> assess_trade(to_raw, value_raw, data)]
    /\ hourly_trade_count' = [hourly_trade_count EXCEPT ![HourOf(now)] = @ + 1]
    /\ UNCHANGED <<now, limitVars, allowed_contracts, daily_volume, daily_trade_count,
                   trade_history, engineVars, monitorVars>>

\* risk_manager.assess_trade(to, value, data), as /risk/assess calls it
AssessTrade(to_raw, value_raw, data) ==
    /\ last' = [op |-> "assess_trade", to |-> to_raw, value |-> value_raw,
                data |-> data, ret |-> assess_trade(to_raw, value_raw, data)]
    /\ UNCHANGED <<now, riskVars, engineVars, monitorVars>>

\* the sum of f over S
RECURSIVE SumOver(_, _)
SumOver(f, S) == IF S = {} THEN 0 ELSE LET x == CHOOSE y \in S : TRUE IN f[x] + SumOver(f, S \ {x})

\* A behaviour makes MaxRecords calls of record_trade that record; one that
\* starts with a history near HistoryCap makes them on top of it.
MayRecord ==
    \/ Len(trade_history) < MaxRecords
    \/ /\ Len(trade_history) >= HistoryCap - 1
       /\ SumOver(daily_trade_count, Days) < HistoryCap + MaxRecords

\* risk_manager.record_trade(to, value, tx_hash)
RecordTrade(to_raw, value_raw, tx_hash) ==
    /\ MayRecord
    /\ record_trade(to_raw, value_raw, tx_hash)
    /\ last' = [op |-> "record_trade", to |-> to_raw, value |-> value_raw,
                data |-> "", ret |-> NoReturn]
    /\ UNCHANGED <<now, limitVars, allowed_contracts, engineVars, monitorVars>>

\* the clock moves on by one minute
AdvanceClock ==
    /\ \E s \in StartTimes : s <= now /\ now + 1 <= s + MaxElapsed
    /\ now' = now + 1
    /\ last' = [NoCall EXCEPT !.op = "clock"]
    /\ UNCHANGED <<riskVars, engineVars, monitorVars>>

RiskNext ==
    \/ \E to \in AddressInputs, v \in ValueInputs, d \in AssessData : AssessTrade(to, v, d)
    \/ \E to \in RecordAddresses, v \in RecordValues : RecordTrade(to, v, "0xt1")
    \/ AdvanceClock

SpecRisk == RiskInit /\ [][RiskNext]_vars

\* The RiskManager after HistoryCap - 1 or HistoryCap calls of
\* record_trade(CONDITIONAL_TOKENS_CONTRACT, 0.4, "0xt0") made within the minute
\* before: SpecHistory
PreRecorded == {HistoryCap - 1, HistoryCap}

HistoryInit ==
    /\ now \in StartTimes
    /\ \E c \in LimitConfigs :
          /\ max_trade_amount_eth = c.trade
          /\ max_daily_volume_eth = c.volume
          /\ max_hourly_trades = c.hourly
          /\ max_daily_trades = c.daily
    /\ allowed_contracts \in AllowLists
    /\ \E n \in PreRecorded :
          /\ daily_volume = [d \in Days |-> IF d = DateOf(now) THEN n * 400000 ELSE 0]
          /\ hourly_trade_count = [h \in Hours |-> IF h = HourOf(now) THEN n ELSE 0]
          /\ daily_trade_count = [d \in Days |-> IF d = DateOf(now) THEN n ELSE 0]
          /\ trade_history =
                [k \in 1..n |->
                   [timestamp |-> now, to_address |-> CONDITIONAL_TOKENS_CONTRACT,
                    value_eth |-> 400000, tx_hash |-> "0xt0",
                    daily_volume |-> k * 400000, daily_trade_count |-> k]]
    /\ last = NoCall
    /\ EngineIdle
    /\ MonitorIdle
    /\ feed = {}
    /\ polymarket_client = TRUE

HistoryNext ==
    \/ \E to \in RecordAddresses, v \in RecordValues : RecordTrade(to, v, "0xt1")
    \/ AdvanceClock

SpecHistory == HistoryInit /\ [][HistoryNext]_vars

-----------------------------------------------------------------------------
(* The RiskManager under the limits 1.0 / 10.0 / 20 / 100, with up to
   ScenarioRecords trades of 1.0 to the allow-listed contract: SpecScenario *)

ScenarioRecords == 10

ScenarioLimits ==
    /\ max_trade_amount_eth = Eth(1)
    /\ max_daily_volume_eth = Eth(10)
    /\ max_hourly_trades = 20
    /\ max_daily_trades = 100

ScenarioInit ==
    /\ now \in StartTimes
    /\ ScenarioLimits
    /\ allowed_contracts = {"0xAaAa"}
    /\ daily_volume = [d \in Days |-> 0]
    /\ hourly_trade_count = [h \in Hours |-> 0]
    /\ daily_trade_count = [d \in Days |-> 0]
    /\ trade_history = <<>>
    /\ last = NoCall
    /\ EngineIdle
    /\ MonitorIdle
    /\ feed = {}
    /\ polymarket_client = TRUE

\* risk_manager.record_trade('0xaaaa', 1.0, tx_hash)
ScenarioRecord ==
    /\ Len(trade_history) < ScenarioRecords
    /\ record_trade("0xaaaa", Num(Eth(1)), "0xt1")
    /\ last' = [op |-> "record_trade", to |-> "0xaaaa", value |-> Num(Eth(1)),
                data |-> "", ret |-> NoReturn]
    /\ UNCHANGED <<now, limitVars, allowed_contracts, engineVars, monitorVars>>

ScenarioValues == {Num(500000), Num(Eth(1)), Num(1500000)}

ScenarioNext ==
    \/ ScenarioRecord
    \/ \E v \in ScenarioValues : AssessTrade("0xaaaa", v, "0x")
    \/ AdvanceClock

SpecScenario == ScenarioInit /\ [][ScenarioNext]_vars

DailyVolumeReason ==
    "Daily volume would exceed limit: {current_daily_volume + value_eth} > {max_daily_volume_eth} ETH"

\* an assess of the given value was just made with n trades of 1.0 recorded in
\* the current day
AssessedAfter(n, value_eth) ==
    /\ last.op = "assess_trade" /\ last.value = Num(value_eth)
    /\ ScenarioLimits
    /\ to_checksum_address(last.to) \in allowed_contracts
    /\ daily_volume[DateOf(now)] = n * Eth(1)
    /\ daily_trade_count[DateOf(now)] = n

\* C34 as stated: after nine recorded trades of 1.0, assess(destination, 1.5)
\* is rejected for the daily volume.
C34_TenthRejectedForVolume ==
    AssessedAfter(9, 1500000) =>
       /\ ~last.ret.approved
       /\ last.ret.reason = DailyVolumeReason

\* C34, amended: after nine recorded trades of 1.0, assess(destination, 1.5) is
\* rejected by the first check, the trade amount limit (1.5 > 1.0), with score
\* 50; assess(destination, 1.0) is approved, since 9.0 + 1.0 does not exceed
\* 10.0; after ten recorded trades assess(destination, 0.5) is rejected for the
\* daily volume, with score 40.
C34_TenthRejectedForAmount ==
    /\ AssessedAfter(9, 1500000) =>
          /\ ~last.ret.approved
          /\ last.ret.reason =
                "Trade amount {value_eth} ETH exceeds limit {max_trade_amount_eth} ETH"
          /\ last.ret.risk_score = 50
    /\ AssessedAfter(9, Eth(1)) => last.ret.approved
    /\ AssessedAfter(10, 500000) =>
          /\ ~last.ret.approved
          /\ last.ret.reason = DailyVolumeReason
          /\ last.ret.risk_score = 40

\* assess(destination, 1.5) was made with nine trades of 1.0 recorded today
C34_Witness ==
    /\ AssessedAfter(9, 1500000)
    /\ Len(trade_history) = 9
    /\ ~last.ret.approved

-----------------------------------------------------------------------------
(* Properties of the RiskManager, checked under SpecRisk *)

Assessed == last.op = "assess_trade"
\* the assessed value as a number (float() succeeded)
AssessedNum == Assessed /\ last.value.isnum
LargePayload == "0x<10002 hex chars>"
PositiveReason == "Trade amount must be positive"

\* C2: assess is a pure read.  A step that completes an assess_trade call leaves
\* the counters, the history, the limits and the allow-list as they were, so every
\* later assess (of the call's intent, or of one that differs from it in its
\* destination, its value or its payload) returns what it would have returned
\* before the call; and an assess repeated right after itself returns the same
\* decision.
C2_AssessPureRead ==
    [][ last'.op = "assess_trade" =>
          /\ riskVars' = riskVars
          /\ \A to \in AddressInputs, v \in ValueInputs, d \in AssessData :
                ( \/ to = last'.to /\ v = last'.value
                  \/ to = last'.to /\ d = last'.data
                  \/ v = last'.value /\ d = last'.data ) =>
                   assess_trade(to, v, d)' = assess_trade(to, v, d)
          /\ (Assessed /\ last'.to = last.to /\ last'.value = last.value
                /\ last'.data = last.data) => last'.ret = last.ret ]_vars

\* an approved assess, and a failing one, after a trade has been recorded
C2_Witness ==
    /\ Assessed /\ last.ret.approved
    /\ Len(trade_history) > 0
    /\ daily_volume[DateOf(now)] > 0

\* C3: an intent with 0 < value <= max trade amount, an allow-listed destination,
\* projected daily volume <= the cap and both counts below their limits is
\* approved, whatever the payload and the warnings.
C3_ValidIntentApproved ==
    ( /\ AssessedNum
      /\ 0 < last.value.val /\ last.value.val <= max_trade_amount_eth
      /\ to_checksum_address(last.to) \in allowed_contracts
      /\ daily_volume[DateOf(now)] + last.value.val <= max_daily_volume_eth
      /\ hourly_trade_count[HourOf(now)] < max_hourly_trades
      /\ daily_trade_count[DateOf(now)] < max_daily_trades )
    => last.ret.approved

\* approved at the cap, with a large payload and three warnings raised
C3_Witness ==
    /\ AssessedNum /\ last.ret.approved
    /\ last.value.val = max_trade_amount_eth
    /\ last.data = LargePayload
    /\ Len(last.ret.warnings) >= 3

\* C4: an intent above the per-trade limit is rejected with risk score >= 50,
\* whatever the destination, the payload and the counters.
C4_OverLimitRejected ==
    (AssessedNum /\ last.value.val > max_trade_amount_eth)
    => (~last.ret.approved /\ last.ret.risk_score >= 50)

\* over the limit, to an allow-listed destination with empty counters
C4_Witness ==
    /\ AssessedNum /\ last.value.val > max_trade_amount_eth
    /\ to_checksum_address(last.to) \in allowed_contracts
    /\ daily_volume[DateOf(now)] = 0
    /\ ~last.ret.approved /\ last.ret.risk_score = 50

\* the destination of the last assess is not in the allow-list (a malformed one
\* is in no list)
DestinationNotAllowed == to_checksum_address(last.to) \notin allowed_contracts

\* C5 as stated: a destination outside the allow-list is rejected with risk
\* score >= 100 for any value, including one above the per-trade limit.
C5_NotAllowedScores100 ==
    (Assessed /\ DestinationNotAllowed)
    => (~last.ret.approved /\ last.ret.risk_score >= 100)

\* C5 amended: a destination outside the allow-list is always rejected; the
\* risk score is 100 when the value is at or below the per-trade limit and 50
\* when it is above (the amount check runs first).
C5_NotAllowedRejected ==
    (Assessed /\ DestinationNotAllowed)
    => /\ ~last.ret.approved
       /\ IF last.value.isnum /\ last.value.val > max_trade_amount_eth
             /\ to_checksum_address(last.to) # BadAddress
          THEN last.ret.risk_score = 50
          ELSE last.ret.risk_score = 100

\* a well-formed destination outside the list, amount and windows passing
C5_Witness ==
    /\ AssessedNum /\ last.to = "0xBbBb"
    /\ 0 < last.value.val /\ last.value.val <= max_trade_amount_eth
    /\ daily_volume[DateOf(now)] + last.value.val <= max_daily_volume_eth
    /\ hourly_trade_count[HourOf(now)] < max_hourly_trades
    /\ daily_trade_count[DateOf(now)] < max_daily_trades
    /\ ~last.ret.approved /\ last.ret.risk_score = 100

\* one of the checks 1-5, which run before the value check, rejects the intent
EarlierCheckFails ==
    \/ to_checksum_address(last.to) = BadAddress
    \/ last.value.val > max_trade_amount_eth
    \/ to_checksum_address(last.to) \notin allowed_contracts
    \/ daily_volume[DateOf(now)] + last.value.val > max_daily_volume_eth
    \/ hourly_trade_count[HourOf(now)] >= max_hourly_trades
    \/ daily_trade_count[DateOf(now)] >= max_daily_trades

\* C10 as stated: a value <= 0 is rejected with the reason "amount must be
\* positive" and risk score exactly 100, whatever the destination and counters.
C10_NonPositiveFirst ==
    (AssessedNum /\ last.value.val <= 0)
    => /\ ~last.ret.approved
       /\ last.ret.reason = PositiveReason
       /\ last.ret.risk_score = 100

\* C10 amended: a value <= 0 is always rejected, but by the last hard check: the
\* reason is "amount must be positive" exactly when none of the checks before it
\* fails, and the score is then 100, plus 10 when the large-payload warning was
\* raised before it.
C10_NonPositiveLast ==
    (AssessedNum /\ last.value.val <= 0)
    => /\ ~last.ret.approved
       /\ (last.ret.reason = PositiveReason) <=> ~EarlierCheckFails
       /\ ~EarlierCheckFails =>
             last.ret.risk_score = 100 + (IF last.data = LargePayload THEN 10 ELSE 0)

\* a negative value to an allow-listed destination, rejected by the value check
C10_Witness ==
    /\ AssessedNum /\ last.value.val < 0
    /\ ~EarlierCheckFails
    /\ last.ret.reason = PositiveReason /\ last.ret.risk_score = 110

\* the intent is rejected by the daily-volume check and by nothing else
RejectedOnlyForDailyVolume(to, v, d) ==
    /\ v.isnum /\ v.val > 0
    /\ assess_trade(to, v, d).risk_score = 40
    /\ ~assess_trade(to, v, d).approved
    /\ hourly_trade_count[HourOf(now)] < max_hourly_trades
    /\ daily_trade_count[DateOf(now)] < max_daily_trades

\* C9 as stated: an intent rejected only for daily volume is approved as soon
\* as the clock enters the next day bucket.
C9_RolloverApproves ==
    [][ DateOf(now') > DateOf(now) =>
          \A to \in AddressInputs, v \in ValueInputs, d \in AssessData :
             RejectedOnlyForDailyVolume(to, v, d) => assess_trade(to, v, d)'.approved ]_vars

\* C9 amended: ... is approved as soon as the clock enters the next day bucket,
\* provided the value alone fits under the daily volume cap; a value above the cap
\* is rejected for daily volume in every bucket.
C9_RolloverApprovesFitting ==
    [][ DateOf(now') > DateOf(now) =>
          \A to \in AddressInputs, v \in ValueInputs, d \in AssessData :
             RejectedOnlyForDailyVolume(to, v, d) =>
                IF v.val <= max_daily_volume_eth
                THEN assess_trade(to, v, d)'.approved
                ELSE assess_trade(to, v, d)'.risk_score = 40 ]_vars

\* in the new day, an intent is approved that the volume recorded the day before
\* would have pushed over the cap
C9_Witness ==
    /\ DateOf(now) = 1
    /\ AssessedNum /\ last.ret.approved
    /\ daily_volume[0] > 0
    /\ daily_volume[0] + last.value.val > max_daily_volume_eth
    /\ daily_trade_count[0] < max_daily_trades

\* the last assess was of a numeric value to a well-formed destination
AssessedWellFormed == AssessedNum /\ to_checksum_address(last.to) # BadAddress

\* C11: an intent with value <= 0 is never approved, whatever the limits, the
\* allow-list, the counters, the destination and the payload.
C11_NonPositiveRejected ==
    (AssessedNum /\ last.value.val <= 0) => ~last.ret.approved

\* a value of exactly zero, with nothing else to object to, after a record
C11_Witness ==
    /\ AssessedNum /\ last.value.val = 0
    /\ ~EarlierCheckFails
    /\ Len(trade_history) > 0
    /\ ~last.ret.approved

\* the values of the trade records made in a day bucket, added up
RECURSIVE RecordedVolume(_, _)
RecordedVolume(h, day) ==
    IF h = <<>> THEN 0
    ELSE (IF DateOf(Head(h).timestamp) = day THEN Head(h).value_eth ELSE 0)
         + RecordedVolume(Tail(h), day)

\* the last assess passed the amount and the allow-list checks
PassedAmountAndAllowList ==
    /\ AssessedWellFormed
    /\ last.value.val <= max_trade_amount_eth
    /\ to_checksum_address(last.to) \in allowed_contracts

\* C12: for an intent that passes the amount and allow-list checks, assess
\* rejects with score 40 exactly when the volume recorded in the current day
\* bucket plus the value is above the daily cap; a projected volume equal to the
\* cap is not rejected by this check.  The current daily volume is the sum of
\* the values recorded in the current day bucket.
C12_DailyVolumeCheck ==
    /\ daily_volume[DateOf(now)] = RecordedVolume(trade_history, DateOf(now))
    /\ PassedAmountAndAllowList =>
          ( (~last.ret.approved /\ last.ret.risk_score = 40)
            <=> daily_volume[DateOf(now)] + last.value.val > max_daily_volume_eth )

\* a projected volume equal to the cap, approved
C12_Witness ==
    /\ PassedAmountAndAllowList
    /\ daily_volume[DateOf(now)] > 0
    /\ daily_volume[DateOf(now)] + last.value.val = max_daily_volume_eth
    /\ last.ret.approved

\* the last assess passed the amount, allow-list and daily-volume checks
PassedDailyVolume ==
    /\ PassedAmountAndAllowList
    /\ daily_volume[DateOf(now)] + last.value.val <= max_daily_volume_eth

\* C13: for an intent that passes the amount, allow-list and daily-volume
\* checks, assess rejects with score 30 when the hour's count has reached the
\* hourly limit, otherwise with score 25 when the day's count has reached the
\* daily limit; counts below their limits cause no rejection.
C13_TradeCountChecks ==
    PassedDailyVolume =>
       IF hourly_trade_count[HourOf(now)] >= max_hourly_trades
       THEN ~last.ret.approved /\ last.ret.risk_score = 30
       ELSE IF daily_trade_count[DateOf(now)] >= max_daily_trades
       THEN ~last.ret.approved /\ last.ret.risk_score = 25
       ELSE last.ret.approved \/ last.ret.risk_score \notin {25, 30}

\* the day's count at its limit while the hour's count is below its own
C13_Witness ==
    /\ PassedDailyVolume /\ last.value.val > 0
    /\ hourly_trade_count[HourOf(now)] > 0
    /\ hourly_trade_count[HourOf(now)] < max_hourly_trades
    /\ daily_trade_count[DateOf(now)] >= max_daily_trades
    /\ ~last.ret.approved /\ last.ret.risk_score = 25

\* The checks of assess_trade in the order of the source, each with whether it
\* fails for the last assessed intent, its penalty and its reason.
ChecksInOrder ==
    << [fails  |-> last.value.val > max_trade_amount_eth, penalty |-> 50,
        reason |-> "Trade amount {value_eth} ETH exceeds limit {max_trade_amount_eth} ETH"],
       [fails  |-> to_checksum_address(last.to) \notin allowed_contracts, penalty |-> 100,
        reason |-> "Contract {to_address} not in allowed contracts list"],
       [fails  |-> daily_volume[DateOf(now)] + last.value.val > max_daily_volume_eth,
        penalty |-> 40,
        reason |-> "Daily volume would exceed limit: {current_daily_volume + value_eth} > {max_daily_volume_eth} ETH"],
       [fails  |-> hourly_trade_count[HourOf(now)] >= max_hourly_trades, penalty |-> 30,
        reason |-> "Hourly trade count limit reached: {current_hourly_trades} >= {max_hourly_trades}"],
       [fails  |-> daily_trade_count[DateOf(now)] >= max_daily_trades, penalty |-> 25,
        reason |-> "Daily trade count limit reached: {current_daily_trades} >= {max_daily_trades}"],
       [fails  |-> last.value.val <= 0,
        penalty |-> 100 + (IF last.data = LargePayload THEN 10 ELSE 0),
        reason |-> PositiveReason] >>

FailingChecks == {k \in 1..Len(ChecksInOrder) : ChecksInOrder[k].fails}
FirstFailing  == CHOOSE k \in FailingChecks : \A j \in FailingChecks : k <= j

\* C14: the score of a rejected decision is the penalty of the first failing
\* check alone, plus the weight of the warnings raised before that check, and
\* its reason is that check's reason, however many later checks would fail too.
C14_ShortCircuitScoring ==
    (AssessedWellFormed /\ ~last.ret.approved) =>
       /\ FailingChecks # {}
       /\ last.ret.risk_score = ChecksInOrder[FirstFailing].penalty
       /\ last.ret.reason = ChecksInOrder[FirstFailing].reason

\* three checks fail at once and the score is that of the first
C14_Witness ==
    /\ AssessedWellFormed /\ ~last.ret.approved
    /\ Cardinality(FailingChecks) >= 3
    /\ FirstFailing = 1
    /\ last.ret.risk_score = 50

\* the last assess was handed a destination or a value that makes it fail inside
AssessedMalformed ==
    Assessed /\ (to_checksum_address(last.to) = BadAddress \/ ~last.value.isnum)

\* C15: an assess of a malformed destination or a non-numeric value returns a
\* decision (it does not raise) that is not approved, has score 100 and a reason
\* that describes the failure, and the call leaves the RiskManager as it was.
C15_AssessNeverRaises ==
    [][ AssessedMalformed' =>
          /\ ~last'.ret.approved
          /\ last'.ret.risk_score = 100
          /\ last'.ret.reason = "Assessment error: {e}"
          /\ riskVars' = riskVars ]_vars

\* a malformed destination assessed after a trade was recorded
C15_Witness ==
    /\ AssessedMalformed /\ last.to \in MalformedAddresses /\ last.value.isnum
    /\ Len(trade_history) > 0
    /\ ~last.ret.approved /\ last.ret.risk_score = 100

\* the step is a record_trade call with a well-formed destination and value
RecordStep ==
    /\ last'.op = "record_trade"
    /\ to_checksum_address(last'.to) # BadAddress
    /\ last'.value.isnum

\* C16: record(destination, value, txRef) adds the value to the current day's
\* volume, one to the current day's and one to the current hour's trade count,
\* appends one trade record, and leaves every other bucket, the limits and the
\* allow-list as they were.
C16_RecordFrame ==
    [][ RecordStep =>
          /\ \A d \in Days :
                /\ daily_volume'[d] =
                      daily_volume[d] + (IF d = DateOf(now) THEN last'.value.val ELSE 0)
                /\ daily_trade_count'[d] =
                      daily_trade_count[d] + (IF d = DateOf(now) THEN 1 ELSE 0)
          /\ \A h \in Hours :
                hourly_trade_count'[h] =
                   hourly_trade_count[h] + (IF h = HourOf(now) THEN 1 ELSE 0)
          /\ Len(trade_history') =
                (IF Len(trade_history) < HistoryCap THEN Len(trade_history) + 1
                 ELSE HistoryCap)
          /\ trade_history'[Len(trade_history')] =
                [timestamp |-> now, to_address |-> to_checksum_address(last'.to),
                 value_eth |-> last'.value.val, tx_hash |-> "0xt1",
                 daily_volume |-> daily_volume[DateOf(now)] + last'.value.val,
                 daily_trade_count |-> daily_trade_count[DateOf(now)] + 1]
          /\ limitVars' = limitVars
          /\ allowed_contracts' = allowed_contracts ]_vars

\* a trade recorded in the new day and hour after one in the old ones
C16_Witness ==
    /\ last.op = "record_trade"
    /\ DateOf(now) = 1
    /\ daily_volume[0] > 0 /\ daily_trade_count[0] = 1 /\ daily_trade_count[1] = 1
    /\ Len(trade_history) = 2
    /\ trade_history[2].timestamp = now

\* C17: the trade history never holds more than HistoryCap entries; a record
\* appends its entry at the end and, when the history is full, drops the oldest
\* entry and no other, so the entries stay in insertion order; no other step
\* changes the history.
C17_HistoryRing ==
    /\ [](Len(trade_history) <= HistoryCap)
    /\ [][ IF RecordStep
           THEN /\ trade_history'[Len(trade_history')].timestamp = now
                /\ trade_history'[Len(trade_history')].tx_hash = "0xt1"
                /\ SubSeq(trade_history', 1, Len(trade_history') - 1) =
                      (IF Len(trade_history) < HistoryCap THEN trade_history
                       ELSE Tail(trade_history))
           ELSE trade_history' = trade_history ]_vars

\* a full history after two more records: the two oldest entries are gone
C17_Witness ==
    /\ last.op = "record_trade"
    /\ Len(trade_history) = HistoryCap
    /\ trade_history[1].daily_trade_count = 3
    /\ trade_history[HistoryCap].daily_trade_count = HistoryCap + 2

-----------------------------------------------------------------------------
(* TradingEngine.execute_trade and execute_polymarket_bet: SpecEngine *)

ValidationCeiling == 1000
DefaultGas == 50000
UsdcPerEth == 2000

\* what the chain answers: the wallet's ETH balance (micro-ETH), the gas price
\* (gwei), estimate_gas (0: the estimate raised), the USDC balance (cents)
EthBalances  == {1000, 401000}
GasPrices    == {20}
GasEstimates == {0, 21000}
UsdcBalances == {1000, 4000000}

\* 50000 * get_gas_price(), in micro-ETH
EstimatedGasCost(gas_price) == (DefaultGas * gas_price) \div 1000

\* amount_usdc / 2000: cents to micro-ETH
UsdcToEth(amount_usdc) == (amount_usdc * 10000) \div UsdcPerEth

StartsWith0x(d) == d \in {"0x", "0xdead", "0x<10002 hex chars>", "0xabc", "0xzz"}
\* d is 0x followed by hex digits only
IsHexString(d) == d \in {"0x", "0xdead", "0x<10002 hex chars>", "0xabc"}

\* _validate_trade_inputs: the ValueError it raises, "" when it passes.  The
\* address is a checksum address here, 42 characters long.
ValidationError(to_address, value_eth, data) ==
    IF to_address = "" \/ to_address \notin ChecksumSpellings
    THEN "Invalid address format"
    ELSE IF value_eth <= 0 THEN "Trade amount must be positive"
    ELSE IF value_eth > Eth(ValidationCeiling) THEN "Trade amount too large"
    ELSE IF data # "" /\ (~StartsWith0x(data) \/ DataLen(data) % 2 # 0)
    THEN "Invalid data format"
    ELSE ""

\* the hash send_transaction / place_bet returns for the n-th submission
TxHash(n) ==
    CASE n = 1 -> "0xt1" [] n = 2 -> "0xt2" [] n = 3 -> "0xt3" [] n = 4 -> "0xt4"
      [] OTHER -> "0xt5+"

Failed(c, error, reason) == [c EXCEPT !.status = "error", !.error = error, !.reason = reason]

NewCall(op, to, value, data) ==
    [NoExecute EXCEPT !.op = op, !.to = to, !.value = value, !.data = data,
                      !.status = "running"]

\* where a call goes after its submission step: on to record_trade when the
\* transaction was sent, out with the exception otherwise
AfterSubmit_always(record_pc, sent) == record_pc
AfterSubmit(record_pc, sent) == IF sent THEN record_pc ELSE "idle"

\* if not risk_assessment['approved']: raise ValueError(...)
RiskRejected_ignored(a) == FALSE
RiskRejected(a) == ~a.approved

\* the call after its assess_trade returned a
WithDecision(c, a) == [c EXCEPT !.assessed = @ + 1, !.decision = a]

\* execute_trade up to and including the risk assessment (lines 45-58)
ExecuteTrade_Begin(p, to_raw, value_raw, data) ==
    /\ pc[p] = "idle"
    /\ n_calls < MaxCalls
    /\ n_calls' = n_calls + 1
    /\ LET to_address == to_checksum_address(to_raw)
           c == NewCall("execute_trade", to_address, value_raw.val, data)
       IN  IF to_address = BadAddress \/ ~value_raw.isnum
           THEN /\ call' = [call EXCEPT ![p] = Failed(c, "<ValueError>", "")]
                /\ pc' = pc
           ELSE IF ValidationError(to_address, value_raw.val, data) # ""
           THEN /\ call' = [call EXCEPT ![p] =
                              Failed(c, ValidationError(to_address, value_raw.val, data), "")]
                /\ pc' = pc
           ELSE LET a == assess_trade(to_address, value_raw, data) IN
                IF RiskRejected(a)
                THEN /\ call' = [call EXCEPT ![p] =
                                   Failed(WithDecision(c, a), "Trade rejected by risk manager",
                                          a.reason)]
                     /\ pc' = pc
                ELSE /\ call' = [call EXCEPT ![p] = WithDecision(c, a)]
                     /\ pc' = [pc EXCEPT ![p] = "et_submit"]
    /\ UNCHANGED <<now, riskVars, last, polymarket_client, n_submitted, monitorVars>>

\* if balance_wei < total_required_wei: raise ValueError("Insufficient balance ...")
InsufficientBalance_never(balance_wei, total_required_wei) == FALSE
InsufficientBalance(balance_wei, total_required_wei) == balance_wei < total_required_wei

\* transaction['gas']: int(gas_estimate * 1.2), or the default of 50000 that the
\* transaction was prepared with when estimate_gas raised (gas_estimate = 0)
GasLimit_none(gas_estimate) == (gas_estimate * 12) \div 10
GasLimit(gas_estimate) ==
    IF gas_estimate = 0 THEN DefaultGas ELSE (gas_estimate * 12) \div 10

\* execute_trade from the balance check to send_transaction (lines 60-90).
\* A data field that is no hex string cannot be encoded: estimate_gas and the
\* signing inside send_transaction raise.
ExecuteTrade_Submit(p) ==
    /\ pc[p] = "et_submit"
    /\ \E balance_wei \in EthBalances, gas_price \in GasPrices,
          gas_estimate \in GasEstimates, sent \in BOOLEAN :
          (~IsHexString(call[p].data) => (gas_estimate = 0 /\ ~sent)) /\
          LET b == [call[p] EXCEPT !.balance_wei = balance_wei, !.gas_price = gas_price]
              c == [b EXCEPT !.gas_estimate = gas_estimate]
              total_required_wei == c.value + EstimatedGasCost(gas_price)
              gas == GasLimit(gas_estimate)
          IN  IF InsufficientBalance(balance_wei, total_required_wei)
              THEN /\ call' = [call EXCEPT ![p] = Failed(b, "Insufficient balance", "")]
                   /\ pc' = [pc EXCEPT ![p] = "idle"]
                   /\ UNCHANGED n_submitted
              ELSE IF ~sent
              THEN /\ call' = [call EXCEPT ![p] =
                                 Failed([c EXCEPT !.gas = gas], "<send_transaction failed>", "")]
                   /\ pc' = [pc EXCEPT ![p] = AfterSubmit("et_record", FALSE)]
                   /\ UNCHANGED n_submitted
              ELSE /\ call' = [call EXCEPT ![p] = [c EXCEPT !.gas = gas, !.submitted = 1,
                                                     !.tx_hash = TxHash(n_submitted + 1)]]
                   /\ pc' = [pc EXCEPT ![p] = AfterSubmit("et_record", TRUE)]
                   /\ n_submitted' = n_submitted + 1
    /\ UNCHANGED <<now, riskVars, last, polymarket_client, n_calls, monitorVars>>

\* 'status' in what execute_trade returns after record_trade came back; record_trade
\* catches whatever is raised inside it, so nothing reaches execute_trade
StatusAfterRecord_escalated(record_failed) == IF record_failed THEN "error" ELSE "pending"
StatusAfterRecord(record_failed) == "pending"

\* execute_trade: record_trade and the return (lines 92-105)
ExecuteTrade_Record(p) ==
    /\ pc[p] = "et_record"
    /\ record_trade(call[p].to, Num(call[p].value), call[p].tx_hash)
    /\ call' = [call EXCEPT ![p] = [@ EXCEPT !.records = @ + 1,
                   !.status = IF @ = "running" THEN StatusAfterRecord(FALSE) ELSE @]]
    /\ pc' = [pc EXCEPT ![p] = "idle"]
    /\ UNCHANGED <<now, limitVars, allowed_contracts, last, polymarket_client,
                   n_calls, n_submitted, monitorVars>>

\* execute_polymarket_bet up to and including the risk assessment (lines 246-260)
ExecuteBet_Begin(p, market_id, outcome, amount_usdc, price) ==
    /\ pc[p] = "idle"
    /\ n_calls < MaxCalls
    /\ n_calls' = n_calls + 1
    /\ LET c == NewCall("execute_polymarket_bet", CONDITIONAL_TOKENS_CONTRACT,
                        UsdcToEth(amount_usdc), market_id)
           a == assess_trade(CONDITIONAL_TOKENS_CONTRACT, Num(UsdcToEth(amount_usdc)), "0x")
       IN  IF ~polymarket_client
           THEN /\ call' = [call EXCEPT ![p] = Failed(c, "Polymarket client not available", "")]
                /\ pc' = pc
           ELSE IF RiskRejected(a)
           THEN /\ call' = [call EXCEPT ![p] =
                              Failed(WithDecision(c, a), "Bet rejected by risk manager", a.reason)]
                /\ pc' = pc
           ELSE /\ call' = [call EXCEPT ![p] = WithDecision(c, a)]
                /\ pc' = [pc EXCEPT ![p] = "pb_submit"]
    /\ UNCHANGED <<now, riskVars, last, polymarket_client, n_submitted, monitorVars>>

\* execute_polymarket_bet: the USDC balance check and place_bet (lines 262-270)
ExecuteBet_Submit(p) ==
    /\ pc[p] = "pb_submit"
    /\ \E usdc_balance \in UsdcBalances, placed \in BOOLEAN :
          LET c == [call[p] EXCEPT !.usdc_balance = usdc_balance]
              required_usdc == (c.value * UsdcPerEth) \div 10000
          IN  IF usdc_balance < required_usdc
              THEN /\ call' = [call EXCEPT ![p] = Failed(c, "Insufficient USDC balance", "")]
                   /\ pc' = [pc EXCEPT ![p] = "idle"]
                   /\ UNCHANGED n_submitted
              ELSE IF ~placed
              THEN /\ call' = [call EXCEPT ![p] = Failed(c, "<place_bet failed>", "")]
                   /\ pc' = [pc EXCEPT ![p] = AfterSubmit("pb_record", FALSE)]
                   /\ UNCHANGED n_submitted
              ELSE /\ call' = [call EXCEPT ![p] = [c EXCEPT !.submitted = 1,
                                                     !.tx_hash = TxHash(n_submitted + 1)]]
                   /\ pc' = [pc EXCEPT ![p] = AfterSubmit("pb_record", TRUE)]
                   /\ n_submitted' = n_submitted + 1
    /\ UNCHANGED <<now, riskVars, last, polymarket_client, n_calls, monitorVars>>

\* execute_polymarket_bet: record_trade and the return (lines 272-288)
ExecuteBet_Record(p) ==
    /\ pc[p] = "pb_record"
    /\ record_trade(CONDITIONAL_TOKENS_CONTRACT, Num(call[p].value), call[p].tx_hash)
    /\ call' = [call EXCEPT ![p] = [@ EXCEPT !.records = @ + 1,
                   !.status = IF @ = "running" THEN "success" ELSE @]]
    /\ pc' = [pc EXCEPT ![p] = "idle"]
    /\ UNCHANGED <<now, limitVars, allowed_contracts, last, polymarket_client,
                   n_calls, n_submitted, monitorVars>>

\* execute_trade arguments: well-formed intents to an allow-listed and to another
\* contract, and one intent for each way the structural validation can fail
TradeInputs ==
    { <<to, Num(v), "0x">> : to \in {"0xaaaa", "0xBbBb"}, v \in {400000, Eth(1)} }
    \cup { <<"0x12", Num(400000), "0x">>, <<"0xaaaa", NonNumeric, "0x">>,
           <<"0xaaaa", Num(0), "0x">>, <<"0xaaaa", Num(Eth(1001)), "0x">>,
           <<"0xaaaa", Num(400000), "0xabc">>, <<"0xaaaa", Num(400000), "dead">>,
           <<"0xaaaa", Num(400000), "0xzz">> }
\* bet sizes in cents: 800 and 2000 USDC
BetAmounts  == {80000, 200000}

EngineInit ==
    /\ RiskManagerInit
    /\ EngineIdle
    /\ MonitorIdle
    /\ feed = {}
    /\ polymarket_client \in BOOLEAN

EngineNext ==
    \/ \E p \in Procs, i \in TradeInputs : ExecuteTrade_Begin(p, i[1], i[2], i[3])
    \/ \E p \in Procs : ExecuteTrade_Submit(p)
    \/ \E p \in Procs : ExecuteTrade_Record(p)
    \/ \E p \in Procs, a \in BetAmounts : ExecuteBet_Begin(p, "market-1", 1, a, 50)
    \/ \E p \in Procs : ExecuteBet_Submit(p)
    \/ \E p \in Procs : ExecuteBet_Record(p)
    \/ AdvanceClock

SpecEngine == EngineInit /\ [][EngineNext]_vars

\* The executions of one thread: each call returns before the next is made, the
\* clock running on in between and within: SpecSequential
SequentialThread == "p1"

SequentialNext ==
    \/ \E i \in TradeInputs : ExecuteTrade_Begin(SequentialThread, i[1], i[2], i[3])
    \/ ExecuteTrade_Submit(SequentialThread)
    \/ ExecuteTrade_Record(SequentialThread)
    \/ \E a \in BetAmounts : ExecuteBet_Begin(SequentialThread, "market-1", 1, a, 50)
    \/ ExecuteBet_Submit(SequentialThread)
    \/ ExecuteBet_Record(SequentialThread)
    \/ AdvanceClock

\* limits of which the second execution meets one (the daily volume, the
\* hourly count, the daily count) or none
SequentialLimits ==
    { [trade |-> Eth(1), volume |-> Eth(2), hourly |-> 3, daily |-> 3],
      [trade |-> Eth(1), volume |-> 500000, hourly |-> 3, daily |-> 3],
      [trade |-> Eth(1), volume |-> Eth(2), hourly |-> 1, daily |-> 3],
      [trade |-> Eth(1), volume |-> Eth(2), hourly |-> 3, daily |-> 1] }

SequentialInit ==
    /\ now \in StartTimes
    /\ \E c \in SequentialLimits :
          /\ max_trade_amount_eth = c.trade
          /\ max_daily_volume_eth = c.volume
          /\ max_hourly_trades = c.hourly
          /\ max_daily_trades = c.daily
    /\ allowed_contracts \in AllowLists
    /\ daily_volume = [d \in Days |-> 0]
    /\ hourly_trade_count = [h \in Hours |-> 0]
    /\ daily_trade_count = [d \in Days |-> 0]
    /\ trade_history = <<>>
    /\ last = NoCall
    /\ EngineIdle
    /\ MonitorIdle
    /\ feed = {}
    /\ polymarket_client = TRUE

SpecSequential == SequentialInit /\ [][SequentialNext]_vars

-----------------------------------------------------------------------------
(* execute_trade with a record_trade that fails: SpecFault *)

\* record_trade when an exception is raised inside its try block after k of its
\* three counter updates, before the history entry is appended.  The arguments
\* execute_trade passes raise none; what is left is a fault of the runtime
\* (MemoryError and the like).  The except clause logs it and returns.
record_trade_interrupted(k) ==
    /\ daily_volume' = IF k >= 1
                       THEN [daily_volume EXCEPT ![RecordDay] = @ + 400000]
                       ELSE daily_volume
    /\ hourly_trade_count' = IF k >= 2
                             THEN [hourly_trade_count EXCEPT ![HourOf(now)] = @ + 1]
                             ELSE hourly_trade_count
    /\ daily_trade_count' = IF k >= 3
                            THEN [daily_trade_count EXCEPT ![RecordDay] = @ + 1]
                            ELSE daily_trade_count
    /\ UNCHANGED trade_history

\* execute_trade: a record_trade that fails, and the return (lines 92-105)
ExecuteTrade_RecordFails(p, k) ==
    /\ pc[p] = "et_record"
    /\ call[p].value = 400000
    /\ record_trade_interrupted(k)
    /\ call' = [call EXCEPT ![p] = [@ EXCEPT !.records = @ + 1,
                   !.status = IF @ = "running" THEN StatusAfterRecord(TRUE) ELSE @]]
    /\ pc' = [pc EXCEPT ![p] = "idle"]
    /\ UNCHANGED <<now, limitVars, allowed_contracts, last, polymarket_client,
                   n_calls, n_submitted, monitorVars>>

\* one thread, trades of 0.4 ETH to an allow-listed contract
FaultNext ==
    \/ ExecuteTrade_Begin("p1", "0xaaaa", Num(400000), "0x")
    \/ ExecuteTrade_Submit("p1")
    \/ ExecuteTrade_Record("p1")
    \/ \E k \in 0..3 : ExecuteTrade_RecordFails("p1", k)
    \/ AdvanceClock

SpecFault == EngineInit /\ [][FaultNext]_vars

-----------------------------------------------------------------------------
(* The RiskManager under reconfiguration: update_limits, add_allowed_contract,
   remove_allowed_contract, and TradingEngine.simulate_trade: SpecAdmin *)

Raised(op) == [op |-> op, to |-> "", value |-> Num(0), data |-> "",
               ret |-> [NoReturn EXCEPT !.reason = "<ValueError>"]]
Returned(op) == [op |-> op, to |-> "", value |-> Num(0), data |-> "", ret |-> NoReturn]

\* keyword arguments of update_limits: one limit, two limits, and a call whose
\* second value is no number
LimitUpdates ==
    { [max_trade_amount_eth |-> Num(400000)],
      [max_daily_volume_eth |-> Num(500000), max_daily_trades |-> Num(1)],
      [max_trade_amount_eth |-> Num(Eth(1)), max_hourly_trades |-> NonNumeric],
      [max_gas_price_gwei |-> NonNumeric] }

\* the keys of update_limits in the order the code converts them
LimitKeys == <<"max_trade_amount_eth", "max_daily_volume_eth",
               "max_hourly_trades", "max_daily_trades">>

\* float(kwargs[key]) / int(kwargs[key]) is reached and returns: the key is
\* given, its value is a number, and no earlier key's conversion raised
Assigns(kwargs, i) ==
    /\ LimitKeys[i] \in DOMAIN kwargs
    /\ \A j \in 1..i : LimitKeys[j] \in DOMAIN kwargs => kwargs[LimitKeys[j]].isnum

\* a key the code does not test is never converted
UpdateRaises(kwargs) ==
    \E i \in 1..Len(LimitKeys) :
       LimitKeys[i] \in DOMAIN kwargs /\ ~kwargs[LimitKeys[i]].isnum

UpdateLimits_reset(kwargs) ==
    /\ max_trade_amount_eth' =
          IF Assigns(kwargs, 1) THEN kwargs[LimitKeys[1]].val ELSE max_trade_amount_eth
    /\ max_daily_volume_eth' =
          IF Assigns(kwargs, 2) THEN kwargs[LimitKeys[2]].val ELSE max_daily_volume_eth
    /\ max_hourly_trades' =
          IF Assigns(kwargs, 3) THEN kwargs[LimitKeys[3]].val ELSE max_hourly_trades
    /\ max_daily_trades' =
          IF Assigns(kwargs, 4) THEN kwargs[LimitKeys[4]].val ELSE max_daily_trades
    /\ daily_volume' = [d \in Days |-> 0]
    /\ hourly_trade_count' = [h \in Hours |-> 0]
    /\ daily_trade_count' = [d \in Days |-> 0]
    /\ last' = IF UpdateRaises(kwargs) THEN Raised("update_limits")
               ELSE Returned("update_limits")
    /\ UNCHANGED <<now, allowed_contracts, trade_history, engineVars, monitorVars>>

\* risk_manager.update_limits(**kwargs)
UpdateLimits(kwargs) ==
    /\ max_trade_amount_eth' =
          IF Assigns(kwargs, 1) THEN kwargs[LimitKeys[1]].val ELSE max_trade_amount_eth
    /\ max_daily_volume_eth' =
          IF Assigns(kwargs, 2) THEN kwargs[LimitKeys[2]].val ELSE max_daily_volume_eth
    /\ max_hourly_trades' =
          IF Assigns(kwargs, 3) THEN kwargs[LimitKeys[3]].val ELSE max_hourly_trades
    /\ max_daily_trades' =
          IF Assigns(kwargs, 4) THEN kwargs[LimitKeys[4]].val ELSE max_daily_trades
    /\ last' = IF UpdateRaises(kwargs) THEN Raised("update_limits")
               ELSE Returned("update_limits")
    /\ UNCHANGED <<now, allowed_contracts, counterVars, trade_history,
                   engineVars, monitorVars>>

AddAllowedContract_raw(contract_address) ==
    /\ IF to_checksum_address(contract_address) = BadAddress
       THEN /\ last' = [Raised("add_allowed_contract") EXCEPT !.to = contract_address]
            /\ UNCHANGED allowed_contracts
       ELSE /\ last' = [Returned("add_allowed_contract") EXCEPT !.to = contract_address]
            /\ allowed_contracts' = allowed_contracts \cup {contract_address}
    /\ UNCHANGED <<now, limitVars, counterVars, trade_history, engineVars, monitorVars>>

\* risk_manager.add_allowed_contract(contract_address)
AddAllowedContract(contract_address) ==
    /\ IF to_checksum_address(contract_address) = BadAddress
       THEN /\ last' = [Raised("add_allowed_contract") EXCEPT !.to = contract_address]
            /\ UNCHANGED allowed_contracts
       ELSE /\ last' = [Returned("add_allowed_contract") EXCEPT !.to = contract_address]
            /\ allowed_contracts' =
                  allowed_contracts \cup {to_checksum_address(contract_address)}
    /\ UNCHANGED <<now, limitVars, counterVars, trade_history, engineVars, monitorVars>>

\* risk_manager.remove_allowed_contract(contract_address)
RemoveAllowedContract(contract_address) ==
    /\ IF to_checksum_address(contract_address) = BadAddress
       THEN /\ last' = [Raised("remove_allowed_contract") EXCEPT !.to = contract_address]
            /\ UNCHANGED allowed_contracts
       ELSE /\ last' = [Returned("remove_allowed_contract") EXCEPT !.to = contract_address]
            /\ allowed_contracts' =
                  allowed_contracts \ {to_checksum_address(contract_address)}
    /\ UNCHANGED <<now, limitVars, counterVars, trade_history, engineVars, monitorVars>>

SimulateTrade_recording(to_raw, value_raw, data) ==
    /\ LET to_address == to_checksum_address(to_raw)
           c == [op |-> "simulate_trade", to |-> to_raw, value |-> value_raw,
                 data |-> data, ret |-> NoReturn]
       IN  IF to_address = BadAddress \/ ~value_raw.isnum
           THEN last' = [c EXCEPT !.ret.reason = "<ValueError>"]
           ELSE IF ValidationError(to_address, value_raw.val, data) # ""
           THEN last' = [c EXCEPT !.ret.reason =
                                     ValidationError(to_address, value_raw.val, data)]
           ELSE \E balance_wei \in EthBalances, gas_price \in GasPrices,
                   gas_estimate \in GasEstimates :
                   last' = [c EXCEPT !.ret = assess_trade(to_address, value_raw, data)]
    /\ IF to_checksum_address(to_raw) # BadAddress /\ value_raw.isnum
          /\ assess_trade(to_checksum_address(to_raw), value_raw, data).approved
       THEN record_trade(to_raw, value_raw, "0xt1")
       ELSE UNCHANGED <<counterVars, trade_history>>
    /\ UNCHANGED <<now, limitVars, allowed_contracts, engineVars, monitorVars>>

\* trading_engine.simulate_trade(to, value, data): the report carries the risk
\* assessment; balance, gas estimate and gas price are read from the chain and
\* nothing is written
SimulateTrade(to_raw, value_raw, data) ==
    /\ LET to_address == to_checksum_address(to_raw)
           c == [op |-> "simulate_trade", to |-> to_raw, value |-> value_raw,
                 data |-> data, ret |-> NoReturn]
       IN  IF to_address = BadAddress \/ ~value_raw.isnum
           THEN last' = [c EXCEPT !.ret.reason = "<ValueError>"]
           ELSE IF ValidationError(to_address, value_raw.val, data) # ""
           THEN last' = [c EXCEPT !.ret.reason =
                                     ValidationError(to_address, value_raw.val, data)]
           ELSE \E balance_wei \in EthBalances, gas_price \in GasPrices,
                   gas_estimate \in GasEstimates :
                   last' = [c EXCEPT !.ret = assess_trade(to_address, value_raw, data)]
    /\ UNCHANGED <<now, riskVars, engineVars, monitorVars>>

\* what the administrative calls and the read-only calls are handed
AdminAddresses == {"0xbbbb", "0xaaaa"} \cup MalformedAddresses
AdminTrades ==
    { <<"0xaaaa", Num(400000), "0x">>, <<"0xBbBb", Num(400000), "0x">>,
      <<"0xaaaa", Num(0), "0x">> }

AdminNext ==
    \/ \E k \in LimitUpdates : UpdateLimits(k)
    \/ \E a \in AdminAddresses : AddAllowedContract(a)
    \/ \E a \in AdminAddresses : RemoveAllowedContract(a)
    \/ \E i \in AdminTrades : SimulateTrade(i[1], i[2], i[3])
    \/ \E i \in AdminTrades : AssessTrade(i[1], i[2], i[3])
    \/ \E to \in RecordAddresses, v \in RecordValues : RecordTrade(to, v, "0xt1")
    \/ AdvanceClock

SpecAdmin == RiskInit /\ [][AdminNext]_vars

\* C18: no volume or trade-count bucket ever decreases, and a bucket changes
\* only in a step that records a trade, and then only the bucket of the current
\* day or hour: assessing, simulating, updating limits and changing the
\* allow-list leave all counters as they were.
C18_CountersMonotone ==
    [][ /\ \A d \in Days : /\ daily_volume'[d] >= daily_volume[d]
                           /\ daily_trade_count'[d] >= daily_trade_count[d]
        /\ \A h \in Hours : hourly_trade_count'[h] >= hourly_trade_count[h]
        /\ counterVars' # counterVars =>
              /\ RecordStep
              /\ \A d \in Days \ {DateOf(now)} :
                    /\ daily_volume'[d] = daily_volume[d]
                    /\ daily_trade_count'[d] = daily_trade_count[d]
              /\ \A h \in Hours \ {HourOf(now)} :
                    hourly_trade_count'[h] = hourly_trade_count[h]
        /\ last'.op \in {"assess_trade", "simulate_trade", "update_limits",
                         "add_allowed_contract", "remove_allowed_contract"} =>
              counterVars' = counterVars ]_vars

\* the limits were lowered below what two recorded trades had counted, and the
\* counts stand
C18_Witness ==
    /\ last.op = "update_limits"
    /\ max_daily_trades = 1
    /\ max_daily_volume_eth = 500000
    /\ SumOver(daily_trade_count, Days) = 2
    /\ SumOver(daily_volume, Days) >= 800000

\* the reasons of the first two checks of assess_trade
TradeLimitReason ==
    "Trade amount {value_eth} ETH exceeds limit {max_trade_amount_eth} ETH"
AllowListReason == "Contract {to_address} not in allowed contracts list"

\* the keys update_limits converts before the given one
EarlierKeys(key) ==
    CASE key = "max_trade_amount_eth" -> {}
      [] key = "max_daily_volume_eth" -> {"max_trade_amount_eth"}
      [] key = "max_hourly_trades"    -> {"max_trade_amount_eth", "max_daily_volume_eth"}
      [] key = "max_daily_trades"     -> {"max_trade_amount_eth", "max_daily_volume_eth",
                                          "max_hourly_trades"}

\* the value update_limits leaves in a limit: the one given when its key was
\* given and its conversion was reached and returned, else the old one
LimitAfter(kwargs, key, old) ==
    IF /\ key \in DOMAIN kwargs
       /\ kwargs[key].isnum
       /\ \A earlier \in EarlierKeys(key) \cap DOMAIN kwargs : kwargs[earlier].isnum
    THEN kwargs[key].val ELSE old

\* C33: update_limits, add_allowed_contract and remove_allowed_contract change
\* only the limits they name, or the allow-list, and leave the counters and the
\* history as they were; an assess made in the state they leave is evaluated
\* against the new limit or allow-list: an address just added passes the
\* allow-list check, an address just removed fails it, and a value is rejected
\* for the trade limit exactly when it exceeds the limit just set.
C33_AdminImmediate ==
    [][ /\ \A k \in LimitUpdates :
             UpdateLimits(k) =>
                /\ max_trade_amount_eth' =
                      LimitAfter(k, "max_trade_amount_eth", max_trade_amount_eth)
                /\ max_daily_volume_eth' =
                      LimitAfter(k, "max_daily_volume_eth", max_daily_volume_eth)
                /\ max_hourly_trades' = LimitAfter(k, "max_hourly_trades", max_hourly_trades)
                /\ max_daily_trades' = LimitAfter(k, "max_daily_trades", max_daily_trades)
                /\ allowed_contracts' = allowed_contracts
                /\ counterVars' = counterVars /\ trade_history' = trade_history
                /\ \A v \in {400000, Eth(1)} :
                      (assess_trade("0xaaaa", Num(v), "0x")'.reason = TradeLimitReason)
                         <=> v > LimitAfter(k, "max_trade_amount_eth", max_trade_amount_eth)
        /\ (last'.op = "add_allowed_contract" /\ last'.ret.reason = "<none>") =>
                /\ allowed_contracts' =
                      allowed_contracts \cup {to_checksum_address(last'.to)}
                /\ limitVars' = limitVars
                /\ counterVars' = counterVars /\ trade_history' = trade_history
                /\ \A a \in ChecksumSpellings \cup LowerSpellings, v \in {400000, Eth(1)} :
                      to_checksum_address(a) = to_checksum_address(last'.to) =>
                         assess_trade(a, Num(v), "0x")'.reason # AllowListReason
        /\ (last'.op = "remove_allowed_contract" /\ last'.ret.reason = "<none>") =>
                /\ allowed_contracts' =
                      allowed_contracts \ {to_checksum_address(last'.to)}
                /\ limitVars' = limitVars
                /\ counterVars' = counterVars /\ trade_history' = trade_history
                /\ \A a \in ChecksumSpellings \cup LowerSpellings :
                      to_checksum_address(a) = to_checksum_address(last'.to) =>
                         /\ ~assess_trade(a, Num(400000), "0x")'.approved
                         /\ max_trade_amount_eth >= 400000 =>
                               assess_trade(a, Num(400000), "0x")'.reason = AllowListReason
        /\ (last'.op \in {"add_allowed_contract", "remove_allowed_contract"}
              /\ last'.ret.reason # "<none>") => riskVars' = riskVars
        /\ (last'.op = "assess_trade" /\ last.op = "add_allowed_contract"
              /\ last.ret.reason = "<none>"
              /\ to_checksum_address(last'.to) = to_checksum_address(last.to)) =>
                last'.ret.reason # AllowListReason ]_vars

\* the assess that follows the addition of 0xBbBb, which the allow-list did not
\* hold at construction, approves a trade to it after trades were recorded
C33_Witness ==
    /\ last.op = "assess_trade" /\ last.ret.approved
    /\ to_checksum_address(last.to) = "0xBbBb"
    /\ Len(trade_history) > 0

\* C39: an update_limits call that raises leaves the four limits as they were,
\* and a call that names only keys the code does not know changes no limit.
C39_FailedUpdateAtomic ==
    [][ \A k \in LimitUpdates :
          UpdateLimits(k) =>
             /\ last'.ret.reason = "<ValueError>" => limitVars' = limitVars
             /\ (\A i \in 1..Len(LimitKeys) : LimitKeys[i] \notin DOMAIN k) =>
                   limitVars' = limitVars ]_vars

\* C24: simulate_trade submits nothing and records nothing: whatever its input
\* and whether the assessment in its report approves or rejects, the counters,
\* the trade history, the limits, the allow-list, the count of submissions and
\* the execute calls are the same before and after it.
C24_SimulateNoEffect ==
    [][ last'.op = "simulate_trade" =>
          /\ riskVars' = riskVars
          /\ n_submitted' = n_submitted
          /\ call' = call /\ pc' = pc ]_vars

\* a simulation that the risk assessment approved, made after one recorded
\* trade: one trade is in the books
C24_Witness ==
    /\ last.op = "simulate_trade"
    /\ last.ret.approved
    /\ Len(trade_history) = 1
    /\ SumOver(daily_trade_count, Days) = 1
    /\ n_submitted = 0

-----------------------------------------------------------------------------
(* Properties of the execute paths, checked under SpecEngine *)

Recording == {p \in Procs : pc[p] \in {"et_record", "pb_record"}}

\* C1: with fixed limits and concurrent executions sharing the RiskManager, no
\* day bucket's recorded volume or trade count and no hour bucket's trade count
\* ever exceeds its limit.
C1_LimitsNeverExceeded ==
    /\ \A d \in Days : /\ daily_volume[d] <= max_daily_volume_eth
                       /\ daily_trade_count[d] <= max_daily_trades
    /\ \A h \in Hours : hourly_trade_count[h] <= max_hourly_trades

\* C35: when the executions are made one at a time and the limits stay as they
\* were configured, then in every state, also after an execution whose assess
\* and record fell into different hour or day buckets, the volume recorded in
\* each day bucket is at most max_daily_volume_eth, its count of trades at most
\* max_daily_trades, and the count of each hour bucket at most max_hourly_trades.
C35_SequentialLimits ==
    /\ \A p \in Procs \ {SequentialThread} : pc[p] = "idle" /\ call[p].status = "none"
    /\ \A d \in Days :
          /\ RecordedVolume(trade_history, d) = daily_volume[d]
          /\ max_daily_volume_eth - daily_volume[d] >= 0
          /\ max_daily_trades - daily_trade_count[d] >= 0
    /\ \A h \in Hours : max_hourly_trades - hourly_trade_count[h] >= 0

\* two executions were recorded; the second was assessed in one day bucket and
\* recorded in the next, where the hour bucket is new as well
C35_Witness ==
    /\ Len(trade_history) = 2
    /\ pc[SequentialThread] = "idle" /\ call[SequentialThread].records = 1
    /\ DateOf(call[SequentialThread].decision.timestamp) = 0
    /\ DateOf(trade_history[2].timestamp) = 1
    /\ daily_volume[0] > 0 /\ daily_volume[1] > 0

\* C6: record_trade runs exactly once in a call whose submission succeeded and
\* not at all in a call that failed (validation, risk rejection, balance,
\* submission), so the trades recorded are the submissions made, less those of the
\* calls that stand between their submission and their record.
C6_RecordOncePerSubmission ==
    /\ \A p \in Procs :
          (pc[p] = "idle" /\ call[p].status # "none") =>
             /\ call[p].records = call[p].submitted
             /\ call[p].status = "error" => call[p].records = 0
             /\ call[p].status \in {"pending", "success"} => call[p].records = 1
    /\ SumOver(daily_trade_count, Days) + Cardinality(Recording) = n_submitted
    /\ Len(trade_history) = SumOver(daily_trade_count, Days)

\* one call submitted and recorded, another failed at its submission step
C6_Witness ==
    /\ \A p \in Procs : pc[p] = "idle"
    /\ \E p, q \in Procs :
          /\ call[p].status = "pending" /\ call[p].records = 1
          /\ call[q].error = "<send_transaction failed>" /\ call[q].records = 0
    /\ n_submitted = 1 /\ Len(trade_history) = 1

\* the intent of call c is structurally invalid: malformed destination, value
\* outside (0, 1000], or a payload that is non-empty and not a 0x-prefixed hex
\* string of even length
StructurallyInvalid(c) ==
    \/ c.to = BadAddress
    \/ c.value <= 0
    \/ c.value > Eth(ValidationCeiling)
    \/ /\ c.data # ""
       /\ ~(StartsWith0x(c.data) /\ DataLen(c.data) % 2 = 0 /\ IsHexString(c.data))

ValidationErrors ==
    {"<ValueError>", "Invalid address format", "Trade amount must be positive",
     "Trade amount too large", "Invalid data format"}

\* C19: an execute_trade call with a structurally invalid intent fails with a
\* validation error before assess_trade is called, and submits and records
\* nothing.
C19_ValidationFailsFast ==
    \A p \in Procs :
       (call[p].op = "execute_trade" /\ StructurallyInvalid(call[p])) =>
          /\ call[p].assessed = 0
          /\ call[p].status = "error"
          /\ call[p].error \in ValidationErrors
          /\ call[p].submitted = 0
          /\ call[p].records = 0

RejectionErrors == {"Trade rejected by risk manager", "Bet rejected by risk manager"}

\* the decision of call c was a rejection
DecisionRejected(c) == c.assessed > 0 /\ ~c.decision.approved

\* C20: when assess_trade returns approved = false inside execute_trade or
\* execute_polymarket_bet, the call fails with the rejection error carrying the
\* decision's reason, submits nothing and records nothing; the step leaves the
\* counters, the history and the count of submissions as they were.
C20_RejectionBlocks ==
    /\ [](\A p \in Procs :
            DecisionRejected(call[p]) =>
               /\ pc[p] = "idle"
               /\ call[p].status = "error"
               /\ call[p].error \in RejectionErrors
               /\ call[p].reason = call[p].decision.reason
               /\ call[p].submitted = 0
               /\ call[p].records = 0)
    /\ [][ \A p \in Procs :
             (call'[p] # call[p] /\ DecisionRejected(call'[p])) =>
                /\ riskVars' = riskVars
                /\ n_submitted' = n_submitted ]_vars

\* a trade to a contract off the allow-list and a bet above the trade limit,
\* both rejected
C20_Witness ==
    \E p, q \in Procs :
       /\ call[p].op = "execute_trade" /\ DecisionRejected(call[p])
       /\ call[p].decision.risk_score = 100
       /\ call[q].op = "execute_polymarket_bet" /\ DecisionRejected(call[q])
       /\ call[q].decision.risk_score = 50
       /\ call[q].reason = call[q].decision.reason
       /\ n_submitted = 0 /\ trade_history = <<>>

\* call c has read the wallet's balance
BalanceChecked(c) == c.op = "execute_trade" /\ c.balance_wei >= 0

\* the balance call c read is below its value plus the static fee reserve
BalanceShort(c) ==
    BalanceChecked(c) /\ c.balance_wei < c.value + (DefaultGas * c.gas_price) \div 1000

\* C21: in execute_trade, a balance below the requested value plus the static
\* fee reserve (50000 gas units at the current gas price) fails the call with the
\* insufficient-funds error: nothing is submitted, nothing is recorded, and the
\* step leaves the gateway's state as it was; a balance that covers both does
\* not fail that way.
C21_InsufficientFundsBlocks ==
    /\ [](\A p \in Procs :
            /\ BalanceShort(call[p]) =>
                  /\ pc[p] = "idle"
                  /\ call[p].status = "error"
                  /\ call[p].error = "Insufficient balance"
                  /\ call[p].submitted = 0
                  /\ call[p].records = 0
            /\ (BalanceChecked(call[p]) /\ ~BalanceShort(call[p])) =>
                  call[p].error # "Insufficient balance")
    /\ [][ \A p \in Procs :
             (call'[p] # call[p] /\ BalanceShort(call'[p])) =>
                /\ riskVars' = riskVars
                /\ n_submitted' = n_submitted ]_vars

\* an approved trade of 1 ETH met a balance of 0.401 ETH, and another of 0.4 ETH
\* met the same balance and went on
C21_Witness ==
    \E p, q \in Procs :
       /\ call[p].error = "Insufficient balance" /\ call[p].decision.approved
       /\ call[p].value = Eth(1) /\ call[p].balance_wei = 401000
       /\ call[q].value = 400000 /\ call[q].balance_wei = 401000
       /\ call[q].error # "Insufficient balance"

\* C22: when estimate_gas fails during execute_trade the trade is not aborted:
\* it goes to send_transaction with the default gas limit of 50000, the only
\* error it can end with is that of the submission itself, and once submitted it
\* is recorded and returned as pending like any other trade.
C22_EstimateBestEffort ==
    \A p \in Procs :
       (call[p].op = "execute_trade" /\ call[p].gas_estimate = 0) =>
          /\ call[p].gas = DefaultGas
          /\ call[p].status = "error" => call[p].error = "<send_transaction failed>"
          /\ call[p].status # "error" => call[p].submitted = 1
          /\ (pc[p] = "idle" /\ call[p].submitted = 1) =>
                /\ call[p].records = 1
                /\ call[p].status = "pending"
                /\ \E k \in 1..Len(trade_history) :
                      /\ trade_history[k].tx_hash = call[p].tx_hash
                      /\ trade_history[k].value_eth = call[p].value

\* a trade whose estimate failed was sent with the default gas limit and recorded
C22_Witness ==
    \E p \in Procs :
       /\ pc[p] = "idle"
       /\ call[p].op = "execute_trade" /\ call[p].gas_estimate = 0
       /\ call[p].gas = DefaultGas
       /\ call[p].status = "pending" /\ call[p].records = 1
       /\ Len(trade_history) = 1 /\ trade_history[1].tx_hash = call[p].tx_hash

\* C23: a record_trade that fails after a successful submission changes nothing
\* in what execute_trade returns: the call ends with status pending and the
\* transaction hash of its submission, no error; a finished call is pending
\* exactly when its submission step succeeded.
C23_RecordFailureSwallowed ==
    /\ [](\A p \in Procs :
            (pc[p] = "idle" /\ call[p].op = "execute_trade") =>
               /\ call[p].submitted = 1 =>
                     /\ call[p].status = "pending"
                     /\ call[p].error = ""
                     /\ call[p].tx_hash # ""
               /\ call[p].status = "pending" => call[p].submitted = 1)
    /\ [][ \A p \in Procs :
             (pc[p] = "et_record" /\ pc'[p] = "idle" /\ trade_history' = trade_history) =>
                /\ call'[p].status = "pending"
                /\ call'[p].tx_hash = call[p].tx_hash
                /\ call'[p].error = "" ]_vars

\* a call returned pending although its record_trade failed after the first
\* counter update: nothing is in the history
C23_Witness ==
    /\ pc["p1"] = "idle"
    /\ call["p1"].status = "pending" /\ call["p1"].submitted = 1
    /\ call["p1"].tx_hash = "0xt1"
    /\ trade_history = <<>>
    /\ SumOver(daily_volume, Days) = 400000
    /\ SumOver(daily_trade_count, Days) = 0

-----------------------------------------------------------------------------
(* WhaleMonitor (whale_monitor.py) *)

\* MAX_POSITION_PERCENTAGE, in percent
max_position_percentage == 5
\* timedelta(minutes=5) in parse_trade_data
FreshMinutes == 5
\* limit=5 in check_whale_trades
FetchLimit == 5
\* "Minimum $1 USDC", in cents
MinCopyUsdc == 100

TradeHashes == {"0xh1", "0xh2"}

FeedTrade(whale, txHash, kind, amount_ok, age) ==
    [whale |-> whale, txHash |-> txHash, kind |-> kind, amount_ok |-> amount_ok,
     age |-> age]

\* What the feed lists in one behaviour.  kind is what trade_data['timestamp']
\* holds: a naive ISO string ("iso"), an ISO string with a zone ("isoZ"),
\* something that is no ISO string, such as epoch seconds ("number"), or nothing
\* ("missing").  age is how long before the start of the process the trade was
\* made, in minutes.
\* two whales, each with a fresh trade, the two under one hash
TwoWhales ==
    { FeedTrade("0xW1", "0xh1", "iso", TRUE, 3), FeedTrade("0xW2", "0xh1", "iso", TRUE, 3) }

FeedScenarios ==
    { {},
      TwoWhales,
      { FeedTrade("0xW1", "0xh1", "iso", TRUE, 3), FeedTrade("0xW1", "0xh2", "number", TRUE, 6) },
      { FeedTrade("0xW1", "0xh1", "isoZ", TRUE, 3), FeedTrade("0xW1", "0xh2", "iso", TRUE, 6) },
      { FeedTrade("0xW2", "0xh1", "missing", TRUE, 6), FeedTrade("0xW2", "0xh2", "iso", FALSE, 3) } }

WhaleConfig(address, position_percentage, enabled) ==
    [address |-> address, position_percentage |-> position_percentage,
     max_daily_trades |-> 10, enabled |-> enabled]

WhaleConfigInputs ==
    { WhaleConfig("0xW1", 2, TRUE), WhaleConfig("0xW2", 10, TRUE),
      WhaleConfig("0xW2", 10, FALSE) }

NoConfig == WhaleConfig("", 0, FALSE)

Min(a, b) == IF a < b THEN a ELSE b

\* position of the address in the dict, 0 when it is not a key
KeyIndex(address) ==
    IF \E i \in 1..Len(monitored_whales) : monitored_whales[i].address = address
    THEN CHOOSE i \in 1..Len(monitored_whales) : monitored_whales[i].address = address
    ELSE 0

RECURSIVE Without(_, _)
Without(seq, i) ==
    IF seq = <<>> THEN <<>>
    ELSE IF i = 1 THEN Tail(seq)
    ELSE <<Head(seq)>> \o Without(Tail(seq), i - 1)

\* a monitor_whales() task: where it is suspended, its dict iterator, the
\* whale_config of the iteration and the new_trades it still has to copy
NewLoop == [lpc |-> "new", it_pos |-> 0, it_size |-> 0, cfg |-> NoConfig, pending |-> <<>>]

\* The for loop of monitor_whales from the iterator's next step up to the next
\* await: the fetch of the next enabled whale, the sleep after the last whale, or
\* the sleep of the outer handler when the dict changed size under the iterator.
RECURSIVE NextAwait(_, _, _)
NextAwait(l, pos, size) ==
    IF Len(monitored_whales) # size
    THEN [NewLoop EXCEPT !.lpc = "backoff"]
    ELSE IF pos = size
    THEN [NewLoop EXCEPT !.lpc = "interval"]
    ELSE IF ~monitored_whales[pos + 1].enabled
    THEN NextAwait(l, pos + 1, size)
    ELSE [l EXCEPT !.lpc = "fetch", !.it_pos = pos + 1, !.it_size = size,
                   !.cfg = monitored_whales[pos + 1], !.pending = <<>>]

FromWhile_forever(l) == NextAwait(l, 0, Len(monitored_whales))

\* monitor_whales from "while self.running" up to the next await
FromWhile(l) ==
    IF ~running
    THEN [NewLoop EXCEPT !.lpc = "done"]
    ELSE NextAwait(l, 0, Len(monitored_whales))

\* the feed's answer for a whale: its trades, latest first, at most `limit`
RECURSIVE LatestFirst(_)
LatestFirst(S) ==
    IF S = {} THEN <<>>
    ELSE LET t == CHOOSE x \in S : \A y \in S :
                     \/ x.at > y.at
                     \/ x.at = y.at /\ (x.txHash = y.txHash \/ x.txHash = "0xh1")
         IN  <<t>> \o LatestFirst(S \ {t})

FeedResponse(whale_address, limit) ==
    LET all == LatestFirst({t \in feed : t.whale = whale_address})
    IN  IF Len(all) > limit THEN SubSeq(all, 1, limit) ELSE all

fetch_recent_trades_unabsorbed(whale_address, limit, fetched) ==
    FeedResponse(whale_address, limit)

\* fetch_recent_trades: the list of the response; the empty list when the
\* request raised or the status was not 200 (fetched = FALSE)
fetch_recent_trades(whale_address, limit, fetched) ==
    IF fetched THEN FeedResponse(whale_address, limit) ELSE <<>>

\* a WhaleTrade; stale records whether the trade was made more than
\* FreshMinutes before the poll that returned it
NoTrade == [whale_address |-> "", trade_hash |-> "", kind |-> "", stale |-> FALSE]

\* parse_trade_data: NoTrade for None.  A timestamp that does not parse, or none,
\* becomes utcnow(); one with a zone cannot be subtracted from utcnow(), and the
\* TypeError ends in the outer handler; so does a non-numeric amount.
parse_trade_data(trade_data, whale_address) ==
    IF ~trade_data.amount_ok THEN NoTrade
    ELSE LET timestamp == IF trade_data.kind = "iso" THEN trade_data.at ELSE now IN
         IF trade_data.kind = "isoZ" THEN NoTrade
         ELSE IF now - timestamp > FreshMinutes THEN NoTrade
         ELSE [whale_address |-> whale_address, trade_hash |-> trade_data.txHash,
               kind |-> trade_data.kind, stale |-> now - trade_data.at > FreshMinutes]

\* self.recent_trades[whale_address].add(trade.trade_hash)
SeenAfter_forget(seen, trade_hash) == seen
SeenAfter(seen, trade_hash) == seen \cup {trade_hash}

\* the loop of check_whale_trades over the response: the new trades, the seen
\* set afterwards, and the hashes that were dropped as already seen
RECURSIVE NewTrades(_, _, _)
NewTrades(response, whale_address, seen) ==
    IF response = <<>> THEN [new |-> <<>>, seen |-> seen, again |-> {}]
    ELSE LET trade == parse_trade_data(Head(response), whale_address) IN
         IF trade = NoTrade
         THEN NewTrades(Tail(response), whale_address, seen)
         ELSE IF trade.trade_hash \in seen
         THEN LET r == NewTrades(Tail(response), whale_address, seen)
              IN  [r EXCEPT !.again = @ \cup {<<whale_address, trade.trade_hash>>}]
         ELSE LET r == NewTrades(Tail(response), whale_address,
                                 SeenAfter(seen, trade.trade_hash))
              IN  [r EXCEPT !.new = <<trade>> \o @]

\* one start of the clock and one configuration of the limits, under which a
\* first copy of 800 USDC passes the risk assessment and a second does not
MonitorInitWith(scenarios) ==
    /\ RiskManagerInit
    /\ now = MinutesPerHour - 2
    /\ max_daily_volume_eth = 500000
    /\ EngineIdle
    /\ MonitorIdle
    /\ feed \in { {[whale |-> t.whale, txHash |-> t.txHash, kind |-> t.kind,
                     amount_ok |-> t.amount_ok, at |-> now - t.age] : t \in S} :
                   S \in scenarios }
    /\ polymarket_client = TRUE

\* the feeds under which several tasks are followed: those of one whale
MonitorInit == MonitorInitWith(FeedScenarios \ {TwoWhales})

\* add_whale
AddWhale(whale_config) ==
    /\ monitored_whales' =
          IF KeyIndex(whale_config.address) = 0
          THEN Append(monitored_whales, whale_config)
          ELSE [monitored_whales EXCEPT ![KeyIndex(whale_config.address)] = whale_config]
    /\ UNCHANGED <<now, riskVars, last, engineVars, recent_trades, running, loops, feed,
                   copied, rediscarded>>

RemoveWhale_forgetting(whale_address) ==
    /\ monitored_whales' =
          IF KeyIndex(whale_address) # 0
          THEN Without(monitored_whales, KeyIndex(whale_address))
          ELSE monitored_whales
    /\ recent_trades' = [recent_trades EXCEPT ![whale_address] = {}]
    /\ UNCHANGED <<now, riskVars, last, engineVars, running, loops, feed,
                   copied, rediscarded>>

\* remove_whale
RemoveWhale(whale_address) ==
    /\ monitored_whales' =
          IF KeyIndex(whale_address) # 0
          THEN Without(monitored_whales, KeyIndex(whale_address))
          ELSE monitored_whales
    /\ UNCHANGED <<now, riskVars, last, engineVars, recent_trades, running, loops, feed,
                   copied, rediscarded>>

\* update_whale_config(whale_address, enabled=...): setattr on the WhaleConfig
\* the dict holds.  The whale_config a task took from the dict is that same
\* object unless the whale was removed or replaced since; the model keeps no
\* object identities, so a task that holds a config of the address may see the
\* new value (aliased) or not.
UpdateWhaleConfig(whale_address, enabled, aliased) ==
    /\ monitored_whales' =
          IF KeyIndex(whale_address) # 0
          THEN [monitored_whales EXCEPT ![KeyIndex(whale_address)].enabled = enabled]
          ELSE monitored_whales
    /\ loops' =
          IF KeyIndex(whale_address) # 0 /\ aliased
          THEN [i \in 1..Len(loops) |->
                  IF loops[i].cfg.address = whale_address
                  THEN [loops[i] EXCEPT !.cfg.enabled = enabled]
                  ELSE loops[i]]
          ELSE loops
    /\ UNCHANGED <<now, riskVars, last, engineVars, recent_trades, running, feed,
                   copied, rediscarded>>

StartMonitoring_always(task_created) ==
    /\ Len(loops) < MaxLoops
    /\ running' = TRUE
    /\ loops' = IF task_created THEN Append(loops, NewLoop) ELSE loops
    /\ UNCHANGED <<now, riskVars, last, engineVars, monitored_whales, recent_trades, feed,
                   copied, rediscarded>>

\* start_monitoring; asyncio.create_task raises RuntimeError when the caller has
\* no running event loop, after running was set
StartMonitoring(task_created) ==
    /\ Len(loops) < MaxLoops
    /\ IF running
       THEN UNCHANGED <<running, loops>>
       ELSE /\ running' = TRUE
            /\ loops' = IF task_created THEN Append(loops, NewLoop) ELSE loops
    /\ UNCHANGED <<now, riskVars, last, engineVars, monitored_whales, recent_trades, feed,
                   copied, rediscarded>>

\* stop_monitoring
StopMonitoring ==
    /\ running' = FALSE
    /\ UNCHANGED <<now, riskVars, last, engineVars, monitored_whales, recent_trades, loops,
                   feed, copied, rediscarded>>

\* a task runs for the first time, or wakes from one of its two sleeps at the end
\* of a cycle, and runs to its next await
LoopResume(i) ==
    /\ i \in 1..Len(loops)
    /\ loops[i].lpc \in {"new", "interval", "backoff"}
    /\ loops' = [loops EXCEPT ![i] = FromWhile(@)]
    /\ UNCHANGED <<now, riskVars, last, engineVars, monitored_whales, recent_trades,
                   running, feed, copied, rediscarded>>

\* fetch_recent_trades returns (an empty list when the request failed) and
\* check_whale_trades runs to its end; monitor_whales goes on to the delay before
\* the first new trade, or to the next whale when there is none
FetchReturns(i, fetched) ==
    /\ i \in 1..Len(loops)
    /\ loops[i].lpc = "fetch"
    /\ LET whale_address == loops[i].cfg.address
           recent_trades_data == fetch_recent_trades(whale_address, FetchLimit, fetched)
           r == NewTrades(recent_trades_data, whale_address, recent_trades[whale_address])
       IN  /\ recent_trades' = [recent_trades EXCEPT ![whale_address] = r.seen]
           /\ rediscarded' = rediscarded \cup r.again
           /\ loops' = [loops EXCEPT ![i] =
                 IF r.new = <<>> THEN NextAwait(@, @.it_pos, @.it_size)
                 ELSE [@ EXCEPT !.lpc = "delay", !.pending = r.new]]
    /\ UNCHANGED <<now, riskVars, last, engineVars, monitored_whales, running, feed, copied>>

\* the thread of the event loop that runs the monitor's tasks
LoopThread == "p2"

\* what execute_copy_trade comes to: "skipped" below the minimum or when the
\* balance could not be read, else the way execute_polymarket_bet ended
CopyOutcome(our_amount_usdc, balance_read, usdc_balance, placed) ==
    IF ~balance_read \/ our_amount_usdc < MinCopyUsdc THEN "skipped"
    ELSE IF ~polymarket_client THEN "failed"
    ELSE IF ~assess_trade(CONDITIONAL_TOKENS_CONTRACT, Num(UsdcToEth(our_amount_usdc)),
                          "0x").approved
    THEN "rejected"
    ELSE IF usdc_balance < our_amount_usdc \/ ~placed THEN "failed"
    ELSE "placed"

BetCall_unassessed(market_id, amount_usdc, usdc_balance, placed) ==
    LET c == NewCall("execute_polymarket_bet", CONDITIONAL_TOKENS_CONTRACT,
                     UsdcToEth(amount_usdc), market_id)
        b == [c EXCEPT !.usdc_balance = usdc_balance]
    IN  IF ~polymarket_client THEN Failed(c, "Polymarket client not available", "")
        ELSE IF usdc_balance < amount_usdc THEN Failed(b, "Insufficient USDC balance", "")
        ELSE IF ~placed THEN Failed(b, "<place_bet failed>", "")
        ELSE [b EXCEPT !.submitted = 1, !.tx_hash = TxHash(n_submitted + 1),
                       !.records = 1, !.status = "success"]

\* execute_polymarket_bet run from its first line to its last by the event loop's
\* thread, as execute_copy_trade calls it (no await inside): the call as it ends
BetCall(market_id, amount_usdc, usdc_balance, placed) ==
    LET c == NewCall("execute_polymarket_bet", CONDITIONAL_TOKENS_CONTRACT,
                     UsdcToEth(amount_usdc), market_id)
        a == assess_trade(CONDITIONAL_TOKENS_CONTRACT, Num(UsdcToEth(amount_usdc)), "0x")
        d == WithDecision(c, a)
        b == [d EXCEPT !.usdc_balance = usdc_balance]
    IN  IF ~polymarket_client THEN Failed(c, "Polymarket client not available", "")
        ELSE IF RiskRejected(a) THEN Failed(d, "Bet rejected by risk manager", a.reason)
        ELSE IF usdc_balance < amount_usdc THEN Failed(b, "Insufficient USDC balance", "")
        ELSE IF ~placed THEN Failed(b, "<place_bet failed>", "")
        ELSE [b EXCEPT !.submitted = 1, !.tx_hash = TxHash(n_submitted + 1),
                       !.records = 1, !.status = "success"]

\* our_amount_usdc = available_usdc * min(position_percentage, max_position_percentage),
\* in cents
PositionSize_uncapped(available_usdc, whale_config) ==
    (available_usdc * whale_config.position_percentage) \div 100
PositionSize(available_usdc, whale_config) ==
    (available_usdc * Min(whale_config.position_percentage, max_position_percentage))
       \div 100

\* monitor_whales after execute_copy_trade came back: on to the delay before the
\* next new trade, or to the next whale.  execute_copy_trade catches and logs
\* whatever its body raises (copy_failed), so nothing reaches monitor_whales.
AfterCopy_escalated(l, copy_failed) ==
    IF copy_failed THEN [NewLoop EXCEPT !.lpc = "interval"]
    ELSE IF Len(l.pending) > 1 THEN [l EXCEPT !.pending = Tail(@)]
    ELSE NextAwait(l, l.it_pos, l.it_size)
AfterCopy_retry(l, copy_failed) ==
    IF copy_failed THEN l
    ELSE IF Len(l.pending) > 1 THEN [l EXCEPT !.pending = Tail(@)]
    ELSE NextAwait(l, l.it_pos, l.it_size)
AfterCopy(l, copy_failed) ==
    IF Len(l.pending) > 1 THEN [l EXCEPT !.pending = Tail(@)]
    ELSE NextAwait(l, l.it_pos, l.it_size)

\* the sleep before a copy ends: execute_copy_trade for the first pending trade,
\* then the delay before the next one, or the next whale
CopyTrade(i, balance_read, available_usdc, usdc_balance, placed) ==
    /\ i \in 1..Len(loops)
    /\ loops[i].lpc = "delay"
    /\ LET whale_trade  == Head(loops[i].pending)
           whale_config == loops[i].cfg
           available    == IF polymarket_client THEN available_usdc ELSE 0
           our_amount_usdc == PositionSize(available, whale_config)
           outcome == CopyOutcome(our_amount_usdc, balance_read \/ ~polymarket_client,
                                  usdc_balance, placed)
           bet == BetCall("market-1", our_amount_usdc, usdc_balance, placed)
       IN  /\ copied' = IF whale_trade \in DOMAIN copied
                        THEN [copied EXCEPT ![whale_trade] = @ + 1]
                        ELSE copied @@ (whale_trade :> 1)
           /\ IF outcome = "skipped"
              THEN UNCHANGED <<call, n_calls>>
              ELSE /\ call' = [call EXCEPT ![LoopThread] = bet]
                   /\ n_calls' = n_calls + 1
           /\ IF outcome # "skipped" /\ bet.submitted = 1
              THEN /\ record_trade(CONDITIONAL_TOKENS_CONTRACT,
                                   Num(UsdcToEth(our_amount_usdc)), bet.tx_hash)
                   /\ n_submitted' = n_submitted + 1
              ELSE UNCHANGED <<counterVars, trade_history, n_submitted>>
           /\ loops' = [loops EXCEPT ![i] =
                 AfterCopy(@, ~balance_read \/ (outcome # "skipped" /\ bet.status = "error"))]
    /\ UNCHANGED <<now, limitVars, allowed_contracts, last, polymarket_client, pc,
                   monitored_whales, recent_trades, running, feed, rediscarded>>

MonitorNext ==
    \/ \E c \in WhaleConfigInputs : AddWhale(c)
    \/ \E w \in WhaleAddrs : RemoveWhale(w)
    \/ \E task_created \in BOOLEAN : StartMonitoring(task_created)
    \/ StopMonitoring
    \/ \E i \in 1..MaxLoops : LoopResume(i)
    \/ \E i \in 1..MaxLoops, fetched \in BOOLEAN : FetchReturns(i, fetched)
    \/ \E i \in 1..MaxLoops, balance_read, placed \in BOOLEAN, usdc_balance \in UsdcBalances :
          CopyTrade(i, balance_read, usdc_balance, usdc_balance, placed)
    \/ AdvanceClock

SpecMonitor == MonitorInit /\ [][MonitorNext]_vars

\* One monitor task under every feed, with all the answers the chain can give
\* to the two balance reads of a copy: SpecCopy
CopyBalances == {1000, 2000, 4000000}

CopyNext ==
    \/ \E c \in WhaleConfigInputs : AddWhale(c)
    \/ \E w \in WhaleAddrs : RemoveWhale(w)
    \/ StartMonitoring(TRUE)
    \/ LoopResume(1)
    \/ \E fetched \in BOOLEAN : FetchReturns(1, fetched)
    \/ \E balance_read, placed \in BOOLEAN, available_usdc, usdc_balance \in CopyBalances :
          CopyTrade(1, balance_read, available_usdc, usdc_balance, placed)
    \/ AdvanceClock

CopyInit == MonitorInitWith(FeedScenarios)

SpecCopy == CopyInit /\ [][CopyNext]_vars

\* Starts and stops of the monitor over the feed of two whales, with the
\* scheduling of asyncio: a task whose sleep has ended is resumed, a request
\* returns (aiohttp ends it after its total timeout at the latest), and the
\* blocking calls of execute_copy_trade return or raise: SpecStop
StopNext ==
    \/ \E c \in WhaleConfigInputs : AddWhale(c)
    \/ StartMonitoring(TRUE)
    \/ StopMonitoring
    \/ \E i \in 1..MaxLoops : LoopResume(i)
    \/ \E i \in 1..MaxLoops, fetched \in BOOLEAN : FetchReturns(i, fetched)
    \/ \E i \in 1..MaxLoops, balance_read \in BOOLEAN :
          CopyTrade(i, balance_read, 4000000, 4000000, TRUE)

StopInit == MonitorInitWith({TwoWhales})

StopFairness ==
    \A i \in 1..MaxLoops :
       /\ WF_vars(LoopResume(i))
       /\ WF_vars(\E fetched \in BOOLEAN : FetchReturns(i, fetched))
       /\ WF_vars(\E balance_read \in BOOLEAN :
                     CopyTrade(i, balance_read, 4000000, 4000000, TRUE))

SpecStop == StopInit /\ [][StopNext]_vars /\ StopFairness

\* The whales are added, removed, re-added, disabled and enabled while the
\* monitor is started and stopped and its tasks poll the feed of two whales:
\* SpecTrack
TrackNext ==
    \/ \E c \in WhaleConfigInputs : AddWhale(c)
    \/ \E w \in WhaleAddrs : RemoveWhale(w)
    \/ \E w \in WhaleAddrs, enabled, aliased \in BOOLEAN :
          UpdateWhaleConfig(w, enabled, aliased)
    \/ StartMonitoring(TRUE)
    \/ StopMonitoring
    \/ \E i \in 1..MaxLoops : LoopResume(i)
    \/ \E i \in 1..MaxLoops, fetched \in BOOLEAN : FetchReturns(i, fetched)
    \/ \E i \in 1..MaxLoops, balance_read \in BOOLEAN :
          CopyTrade(i, balance_read, 4000000, 4000000, TRUE)

TrackInit == MonitorInitWith({TwoWhales})

SpecTrack == TrackInit /\ [][TrackNext]_vars

\* One whale whose max_daily_trades is 1 and whose feed lists two fresh trades,
\* followed by one task within one day: SpecDaily
DailyConfigs == { [WhaleConfig("0xW1", 2, TRUE) EXCEPT !.max_daily_trades = 1] }

DailyFeed ==
    { FeedTrade("0xW1", "0xh1", "iso", TRUE, 3), FeedTrade("0xW1", "0xh2", "iso", TRUE, 4) }

DailyInit == MonitorInitWith({DailyFeed})

DailyNext ==
    \/ \E c \in DailyConfigs : AddWhale(c)
    \/ StartMonitoring(TRUE)
    \/ StopMonitoring
    \/ LoopResume(1)
    \/ \E fetched \in BOOLEAN : FetchReturns(1, fetched)
    \/ \E balance_read, placed \in BOOLEAN, available_usdc, usdc_balance \in CopyBalances :
          CopyTrade(1, balance_read, available_usdc, usdc_balance, placed)
    \/ AdvanceClock

SpecDaily == DailyInit /\ [][DailyNext]_vars

-----------------------------------------------------------------------------
(* Properties of the monitor, checked under SpecMonitor *)

\* how many execute_copy_trade calls were made for the trade (whale, hash)
RECURSIVE Total(_, _)
Total(f, S) == IF S = {} THEN 0 ELSE LET x == CHOOSE y \in S : TRUE IN f[x] + Total(f, S \ {x})

Copies(whale, trade_hash) ==
    Total(copied, {t \in DOMAIN copied : t.whale_address = whale /\ t.trade_hash = trade_hash})

\* the trades some task holds between their detection and their copy
Pending ==
    UNION { {loops[i].pending[k] : k \in 1..Len(loops[i].pending)} : i \in 1..Len(loops) }

\* C7: for a whale A and a trade hash r, however many polls return the trade and
\* however the polls of several tasks overlap, at most one copy is attempted, and
\* r is in A's seen set from its detection on, before anything is done for it.
C7_CopiedAtMostOnce ==
    /\ \A w \in WhaleAddrs, h \in TradeHashes : Copies(w, h) <= 1
    /\ \A w \in WhaleAddrs, h \in TradeHashes :
          Copies(w, h) + Cardinality({t \in Pending : t.whale_address = w /\ t.trade_hash = h})
             <= 1
    /\ \A t \in Pending : t.trade_hash \in recent_trades[t.whale_address]
    /\ \A t \in DOMAIN copied : t.trade_hash \in recent_trades[t.whale_address]

\* two tasks exist, a trade was copied once and a later poll returned it again
C7_Witness ==
    /\ Len(loops) = 2 /\ \A i \in 1..2 : loops[i].lpc # "done"
    /\ \E w \in WhaleAddrs, h \in TradeHashes :
          /\ Copies(w, h) = 1
          /\ <<w, h>> \in rediscarded

\* C8: a trade whose timestamp is more than 5 minutes older than the poll that
\* returns it is never handed to the copy, in that cycle or a later one.
C8_StaleNeverCopied ==
    \A t \in DOMAIN copied : t.kind # "missing" => ~t.stale

\* C25: the monitor is Stopped or Running; running changes only in a
\* start_monitoring step (from Stopped) or a stop_monitoring step (from
\* Running); start_monitoring while Running launches no task and leaves the
\* monitored whales and the seen sets as they are; a task is launched only by a
\* start from Stopped.
C25_StartStopOnly ==
    /\ [](running \in BOOLEAN)
    /\ [][ /\ running' # running =>
                IF running THEN StopMonitoring
                ELSE \E task_created \in BOOLEAN : StartMonitoring(task_created)
           /\ (running /\ \E task_created \in BOOLEAN : StartMonitoring(task_created)) =>
                /\ running'
                /\ loops' = loops
                /\ monitored_whales' = monitored_whales
                /\ recent_trades' = recent_trades
           /\ Len(loops') > Len(loops) =>
                /\ ~running /\ running'
                /\ Len(loops') = Len(loops) + 1 ]_vars

\* started, stopped, the first task gone, started again: Running with one live
\* task, which is polling
C25_Witness ==
    /\ running
    /\ Len(loops) = 2
    /\ loops[1].lpc = "done"
    /\ loops[2].lpc = "fetch"

\* task i is inside a poll cycle and working on the whale
InCycle(i, whale_address) ==
    /\ loops[i].lpc \in {"fetch", "delay"}
    /\ loops[i].cfg.address = whale_address

\* C26: whatever the sequence of start_monitoring and stop_monitoring calls, no
\* two poll cycles are in progress at once for the same whale.
C26_NoOverlappingCycles ==
    \A w \in WhaleAddrs :
       Cardinality({i \in 1..Len(loops) : InCycle(i, w)}) <= 1

\* the enabled whales that come after position pos in the dict
EnabledAfter(pos) ==
    {k \in (pos + 1)..Len(monitored_whales) : monitored_whales[k].enabled}

C29_NeverBypassesRisk ==
    /\ [](LET c == call[LoopThread] IN
          /\ c.submitted = 1 =>
                /\ c.assessed = 1 /\ c.decision.approved
                /\ c.usdc_balance >= (c.value * UsdcPerEth) \div 10000
                /\ c.records = 1
          /\ (c.assessed > 0 /\ ~c.decision.approved) =>
                /\ c.submitted = 0 /\ c.records = 0
                /\ c.status = "error"
          /\ n_submitted = Len(trade_history)
          /\ n_submitted = SumOver(daily_trade_count, Days)
          /\ n_submitted <= n_calls)
    /\ [][ n_submitted' # n_submitted =>
             /\ n_submitted' = n_submitted + 1
             /\ n_calls' = n_calls + 1
             /\ call'[LoopThread].submitted = 1
             /\ assess_trade(CONDITIONAL_TOKENS_CONTRACT,
                             Num(call'[LoopThread].value), "0x").approved
             /\ Len(trade_history') = Len(trade_history) + 1
             /\ trade_history'[Len(trade_history')].tx_hash = call'[LoopThread].tx_hash
             /\ trade_history'[Len(trade_history')].value_eth = call'[LoopThread].value ]_vars

\* the copy of one whale's trade was placed and recorded, the copy of the other's
\* was rejected by the risk assessment
C29_Witness ==
    /\ n_calls = 2 /\ n_submitted = 1
    /\ Len(trade_history) = 1
    /\ call[LoopThread].assessed = 1 /\ ~call[LoopThread].decision.approved
    /\ call[LoopThread].error = "Bet rejected by risk manager"
    /\ Copies("0xW1", "0xh1") = 1 /\ Copies("0xW2", "0xh1") = 1

\* C30: the amount of every bet the monitor attempts is the balance read in
\* execute_copy_trade times the smaller of the whale's position percentage and
\* max_position_percentage, so at most max_position_percentage of that balance;
\* it is at least the minimum of 1 USDC, and a copy whose amount is below it
\* attempts nothing.
C30_CopySizing ==
    [][ \A i \in 1..Len(loops) :
          (loops[i].lpc = "delay" /\ copied' # copied) =>
             IF n_calls' = n_calls
             THEN call' = call /\ n_submitted' = n_submitted
             ELSE \E available_usdc \in CopyBalances :
                     LET amount == (available_usdc *
                                    Min(loops[i].cfg.position_percentage,
                                        max_position_percentage)) \div 100
                     IN  /\ amount >= MinCopyUsdc
                         /\ amount * 100 <= max_position_percentage * available_usdc
                         /\ call'[LoopThread].value = UsdcToEth(amount) ]_vars

\* the copy for the whale with 2 percent was below 1 USDC and attempted nothing;
\* the copy for the whale with 10 percent was sized at 5 percent of 20 USDC
C30_Witness ==
    /\ Copies("0xW1", "0xh1") = 1 /\ Copies("0xW2", "0xh1") = 1
    /\ n_calls = 1
    /\ call[LoopThread].op = "execute_polymarket_bet"
    /\ call[LoopThread].value = UsdcToEth(MinCopyUsdc)

\* the tasks of monitor_whales have all returned
AllDone == \A i \in 1..Len(loops) : loops[i].lpc = "done"

\* C27: stop_monitoring only clears the flag and leaves every task where it is;
\* while the monitor stays stopped a task at a fetch or at a delay goes on (the
\* trade it holds is copied), a task that wakes from the sleep between two
\* cycles returns instead of starting a cycle, and when the monitor is stopped
\* for good every task eventually returns.
C27_StopIsCooperative ==
    /\ [][ (running /\ ~running') =>
              /\ loops' = loops /\ copied' = copied
              /\ recent_trades' = recent_trades ]_vars
    /\ [][ (~running /\ ~running') =>
              \A i \in 1..Len(loops) :
                 /\ Len(loops') = Len(loops)
                 /\ (loops[i].lpc \in {"new", "interval", "backoff", "done"}
                       /\ loops'[i] # loops[i]) => loops'[i].lpc = "done"
                 /\ (loops[i].lpc = "delay" /\ loops'[i] # loops[i]) =>
                       /\ copied' # copied
                       /\ LET trade == loops[i].pending[1] IN
                             Total(copied', {t \in DOMAIN copied' :
                                       /\ t.whale_address = trade.whale_address
                                       /\ t.trade_hash = trade.trade_hash}) = 1
                       /\ \/ loops'[i].pending = Tail(loops[i].pending)
                          \/ loops'[i].lpc \in {"fetch", "interval", "backoff"}
                 /\ loops[i].lpc = "done" => loops'[i] = loops[i] ]_vars
    /\ (<>[](~running)) => <>[]AllDone

\* the monitor is stopped, its task has returned, and the trades of both whales
\* were copied in the cycles it ran
C27_Witness ==
    /\ ~running
    /\ Len(loops) = 1 /\ loops[1].lpc = "done"
    /\ Copies("0xW1", "0xh1") = 1 /\ Copies("0xW2", "0xh1") = 1

\* C31: a poll whose request failed returns the empty list: the step that ends it
\* adds nothing to any seen set, hands no trade to the copy loop, makes no copy,
\* and leaves the task in its cycle, at the fetch of the next enabled whale or at
\* the sleep that ends the cycle.
C31_FeedFailureAbsorbed ==
    [][ \A i \in 1..Len(loops) :
          FetchReturns(i, FALSE) =>
             /\ recent_trades' = recent_trades
             /\ copied' = copied /\ call' = call
             /\ loops'[i].pending = <<>>
             /\ Len(loops') = Len(loops)
             /\ IF Len(monitored_whales) # loops[i].it_size
                THEN loops'[i].lpc = "backoff"
                ELSE IF EnabledAfter(loops[i].it_pos) = {}
                THEN loops'[i].lpc = "interval"
                ELSE /\ loops'[i].lpc = "fetch"
                     /\ loops'[i].it_pos \in EnabledAfter(loops[i].it_pos) ]_vars

\* the poll of the first whale failed although the feed lists a fresh trade of
\* it: its seen set is empty and the task is at the fetch of the second whale
C31_Witness ==
    /\ now = MinutesPerHour - 2
    /\ Len(loops) = 1 /\ loops[1].lpc = "fetch"
    /\ loops[1].it_pos = 2 /\ loops[1].cfg.address = "0xW2"
    /\ Len(monitored_whales) = 2 /\ monitored_whales[1].address = "0xW1"
    /\ \E t \in feed : t.whale = "0xW1" /\ t.kind = "iso" /\ t.amount_ok
    /\ recent_trades["0xW1"] = {}
    /\ Copies("0xW1", "0xh1") = 0

\* the address is a key of monitored_whales and its config is enabled
TrackedEnabled(whale_address) ==
    /\ KeyIndex(whale_address) # 0
    /\ monitored_whales[KeyIndex(whale_address)].enabled

\* C32: only enabled tracked addresses are acted on.  A step that starts the
\* poll of an address, one that adds a hash to the seen set of an address, and
\* one that executes a copy for a trade of an address are taken only while the
\* address is tracked and enabled.
C32_OnlyEnabledTracked ==
    [][ /\ \A i \in 1..Len(loops) :
             (loops'[i].lpc = "fetch" /\ loops'[i] # loops[i]) =>
                TrackedEnabled(loops'[i].cfg.address)
        /\ \A w \in WhaleAddrs :
             recent_trades'[w] # recent_trades[w] => TrackedEnabled(w)
        /\ \A i \in 1..Len(loops) :
             (loops[i].lpc = "delay" /\ copied' # copied /\ loops'[i] # loops[i]) =>
                TrackedEnabled(loops[i].pending[1].whale_address) ]_vars

\* C36: the monitor is Running only with a task of monitor_whales that was
\* created and has not returned: a start that creates no task leaves the
\* monitor Stopped.
C36_RunningHasLoop ==
    /\ [](running => \E i \in 1..Len(loops) : loops[i].lpc # "done")
    /\ [][ (~running /\ running') => Len(loops') = Len(loops) + 1 ]_vars

\* C37: execute_copy_trade is called at most once for an observed trade, whether
\* the call placed a bet, was skipped or failed: the hash is in the seen set of
\* its whale from the detection on, so a later poll that returns the trade again
\* drops it, hands nothing to the copy loop for it and executes nothing.
C37_NeverRetried ==
    /\ [](\A t \in DOMAIN copied :
             /\ copied[t] = 1
             /\ t.trade_hash \in recent_trades[t.whale_address]
             /\ t \notin Pending)
    /\ [][ \A w \in WhaleAddrs, h \in TradeHashes :
             /\ Copies(w, h)' # Copies(w, h) =>
                   /\ Copies(w, h) = 0 /\ Copies(w, h)' = 1
                   /\ <<w, h>> \notin rediscarded
                   /\ h \in recent_trades[w]
             /\ (<<w, h>> \in rediscarded' /\ <<w, h>> \notin rediscarded) =>
                   /\ copied' = copied /\ call' = call
                   /\ h \in recent_trades[w]
                   /\ \A i \in 1..Len(loops') : \A k \in 1..Len(loops'[i].pending) :
                         ~(/\ loops'[i].pending[k].whale_address = w
                           /\ loops'[i].pending[k].trade_hash = h) ]_vars

\* the one copy of a trade placed no bet, and a later poll, made while the trade
\* was still fresh, returned the trade again and dropped it
C37_Witness ==
    /\ Copies("0xW1", "0xh1") = 1
    /\ n_submitted = 0
    /\ <<"0xW1", "0xh1">> \in rediscarded
    /\ now = MinutesPerHour - 2
    /\ Len(loops) = 1 /\ loops[1].lpc = "interval"

\* how many execute_copy_trade calls were made for trades of the whale
CopiesOf(whale) ==
    Total(copied, {t \in DOMAIN copied : t.whale_address = whale})

\* C38: within one day (the clock of SpecDaily stays inside day 0) the number of
\* execute_copy_trade calls made for a tracked whale is at most the
\* max_daily_trades of its config.
C38_WhaleDailyBound ==
    /\ DateOf(now) = 0
    /\ \A k \in 1..Len(monitored_whales) :
          CopiesOf(monitored_whales[k].address) <= monitored_whales[k].max_daily_trades

\* C40: the seen set of an address only grows, whatever step is taken (a poll,
\* a copy, add_whale, remove_whale, update_whale_config, start_monitoring,
\* stop_monitoring); a poll hands to the copy loop only trades whose hash the
\* seen set of the whale did not hold, so a trade seen before the whale was
\* removed is not copied after the whale is added again.
C40_SeenSetsGrow ==
    [][ /\ \A w \in WhaleAddrs : recent_trades[w] \subseteq recent_trades'[w]
        /\ \A i \in 1..Len(loops) :
             (loops[i].lpc = "fetch" /\ i <= Len(loops') /\ loops'[i].lpc = "delay") =>
                \A k \in 1..Len(loops'[i].pending) :
                   /\ loops'[i].pending[k].trade_hash
                         \notin recent_trades[loops'[i].pending[k].whale_address]
                   /\ loops'[i].pending[k].trade_hash
                         \in recent_trades'[loops'[i].pending[k].whale_address]
        /\ \A t \in DOMAIN copied' : copied'[t] <= 1 ]_vars

\* the whale was removed after its trade was seen and copied, and its seen set
\* still holds the hash
C40_Witness ==
    /\ KeyIndex("0xW1") = 0
    /\ "0xh1" \in recent_trades["0xW1"]
    /\ Copies("0xW1", "0xh1") = 1
    /\ \A i \in 1..Len(loops) : loops[i].lpc # "delay"

====
